---- MODULE Spec2Model ----
(***************************************************************************)
(* A model of page-loader (src/unnamed/part_007, whose first 139 lines are *)
(* also src/src/pageLoader.js): one run of pageLoader(url, outputDir)      *)
(* against a file system and an HTTP collaborator.                         *)
(*                                                                         *)
(* Strings of the program are sequences of one-character strings, so that  *)
(* the regular expressions, URL parsing and path functions of the code are *)
(* computed character by character.                                        *)
(***************************************************************************)
EXTENDS Integers, Sequences, FiniteSets, TLC

(***************************************************************************)
(* Characters and string helpers                                           *)
(***************************************************************************)
\* F of the value of e, with e evaluated once (an operator argument is
\* otherwise evaluated at each of its uses)
With(e, F(_)) == CHOOSE r \in {F(v) : v \in {e}} : TRUE
With2(e1, e2, F(_, _)) == CHOOSE r \in {F(v, w) : v \in {e1}, w \in {e2}} : TRUE

Lower == <<"a", "b", "c", "d", "e", "f", "g", "h", "i", "j", "k", "l", "m",
           "n", "o", "p", "q", "r", "s", "t", "u", "v", "w", "x", "y", "z">>
Upper == <<"A", "B", "C", "D", "E", "F", "G", "H", "I", "J", "K", "L", "M",
           "N", "O", "P", "Q", "R", "S", "T", "U", "V", "W", "X", "Y", "Z">>
Digits == {"0", "1", "2", "3", "4", "5", "6", "7", "8", "9"}

Range(f) == {f[i] : i \in DOMAIN f}
Alpha == Range(Lower) \cup Range(Upper)
\* the character class [a-z0-9] under the flag i
Alnum == Alpha \cup Digits

ToLowerChar(c) ==
  IF c \in Range(Upper) THEN Lower[CHOOSE i \in DOMAIN Upper : Upper[i] = c] ELSE c
ToLower(s) ==
  With(s, LAMBDA v : IF v = <<>> THEN <<>>
                     ELSE [i \in 1..Len(v) |-> ToLowerChar(v[i])])

Take(s, n) == SubSeq(s, 1, n)
Drop(s, n) == With(s, LAMBDA v : SubSeq(v, n + 1, Len(v)))
StartsWith(s, p) ==
  With2(s, p, LAMBDA v, w : Len(v) >= Len(w) /\ Take(v, Len(w)) = w)
EndsWith(s, p) ==
  With2(s, p, LAMBDA v, w : Len(v) >= Len(w) /\ Drop(v, Len(v) - Len(w)) = w)

\* index of the first (last) character of s that is in set, 0 when there is none
FirstIndex(s, set) ==
  With(s, LAMBDA v :
    IF \E i \in 1..Len(v) : v[i] \in set
    THEN CHOOSE i \in 1..Len(v) : v[i] \in set /\ \A j \in 1..(i - 1) : v[j] \notin set
    ELSE 0)
LastIndex(s, set) ==
  With(s, LAMBDA v :
    IF \E i \in 1..Len(v) : v[i] \in set
    THEN CHOOSE i \in 1..Len(v) : v[i] \in set /\ \A j \in (i + 1)..Len(v) : v[j] \notin set
    ELSE 0)

\* s up to, not including, the first character in set (all of s when none)
Before(s, set) ==
  With2(s, FirstIndex(s, set), LAMBDA v, i : IF i = 0 THEN v ELSE Take(v, i - 1))
\* s from the first character in set on (empty when none)
From(s, set) ==
  With2(s, FirstIndex(s, set), LAMBDA v, i : IF i = 0 THEN <<>> ELSE Drop(v, i - 1))

RECURSIVE StripLeading(_, _)
StripLeading(s, set) ==
  With(s, LAMBDA v :
    IF v # <<>> /\ v[1] \in set THEN StripLeading(Tail(v), set) ELSE v)

(***************************************************************************)
(* new URL(input[, base]) of the WHATWG URL class, for the inputs of the   *)
(* catalogues below: scheme detection, special schemes with a mandatory    *)
(* host, default-port elision, host lower-casing, "/" as the path of an    *)
(* empty path, dot-segment removal, and resolution of scheme-relative,     *)
(* path-absolute, query-only, fragment-only and path-relative references.  *)
(* Not modelled: userinfo, IPv6 and IDNA hosts, percent-encoding,          *)
(* backslashes, leading or trailing white space.                           *)
(***************************************************************************)
NoURL ==
  [ok |-> FALSE, scheme |-> <<>>, slashes |-> FALSE, host |-> <<>>,
   pathname |-> <<>>, search |-> <<>>, hash |-> <<>>]

\* the special schemes and their default ports
SpecialSchemes == {<<"h", "t", "t", "p">>, <<"h", "t", "t", "p", "s">>,
                   <<"f", "t", "p">>, <<"w", "s">>, <<"w", "s", "s">>}
DefaultPort(scheme) ==
  CASE scheme = <<"h", "t", "t", "p">> -> <<"8", "0">>
    [] scheme = <<"h", "t", "t", "p", "s">> -> <<"4", "4", "3">>
    [] scheme = <<"f", "t", "p">> -> <<"2", "1">>
    [] scheme = <<"w", "s">> -> <<"8", "0">>
    [] scheme = <<"w", "s", "s">> -> <<"4", "4", "3">>
    [] OTHER -> <<>>

\* the length of the scheme of s (the characters before its first ":"), 0
\* when s does not start with a scheme
SchemeLen(s) ==
  With2(s, FirstIndex(s, {":"}), LAMBDA v, c :
    IF /\ c > 1
       /\ v[1] \in Alpha
       /\ \A j \in 2..(c - 1) : v[j] \in Alnum \cup {"+", "-", "."}
    THEN c - 1 ELSE 0)

ForbiddenHostChars ==
  {" ", "#", "%", "/", ":", "<", ">", "?", "@", "[", "]", "^", "|"}

\* the segments of a path between its "/" characters: "/a/b" is <<"a", "b">>,
\* "/" is <<"">>, "/a/" is <<"a", "">>
RECURSIVE Segments(_)
Segments(p) ==
  With(p, LAMBDA v :
    IF v = <<>> THEN <<>>
    ELSE <<Before(Tail(v), {"/"})>> \o Segments(From(Tail(v), {"/"})))

RECURSIVE JoinSegments(_)
JoinSegments(segs) ==
  With(segs, LAMBDA v :
    IF v = <<>> THEN <<>> ELSE <<"/">> \o Head(v) \o JoinSegments(Tail(v)))

IsDot(seg) == seg = <<".">>
IsDotDot(seg) == seg = <<".", ".">>

\* dot-segment removal: out is the stack of segments kept so far
RECURSIVE RemoveDots(_, _)
RemoveDots(segs, out) ==
  With2(segs, out, LAMBDA v, o :
    IF v = <<>> THEN o
    ELSE IF IsDotDot(Head(v))
    THEN RemoveDots(Tail(v),
                    (IF o = <<>> THEN o ELSE Take(o, Len(o) - 1))
                      \o (IF Len(v) = 1 THEN <<<<>>>> ELSE <<>>))
    ELSE IF IsDot(Head(v))
    THEN RemoveDots(Tail(v), o \o (IF Len(v) = 1 THEN <<<<>>>> ELSE <<>>))
    ELSE RemoveDots(Tail(v), Append(o, Head(v))))

\* the pathname of a special URL: never empty, without dot segments
NormalizePath(p) ==
  With(p, LAMBDA v :
    IF v = <<>> THEN <<"/">>
    ELSE With(RemoveDots(Segments(v), <<>>), LAMBDA segs :
           IF segs = <<>> THEN <<"/">> ELSE JoinSegments(segs)))

\* path, query and fragment of what follows the authority
PathOf(tail) == Before(tail, {"?", "#"})
SearchOf(tail) == Before(From(tail, {"?"}), {"#"})
HashOf(tail) == From(tail, {"#"})

\* host[:port] for a lower-case host name and a port, the default port of the
\* scheme dropped; <<>> when the name is no valid host or the port no number
HostPort(scheme, name, port) ==
  IF name = <<>> \/ (\E i \in 1..Len(name) : name[i] \in ForbiddenHostChars)
     \/ (\E i \in 1..Len(port) : port[i] \notin Digits)
  THEN <<>>
  ELSE IF port = <<>> \/ port = DefaultPort(scheme) THEN name
  ELSE name \o <<":">> \o port

\* the host of an authority: what precedes and what follows its last ":"
HostOf(scheme, authority) ==
  With(ToLower(authority), LAMBDA hp :
    With(LastIndex(hp, {":"}), LAMBDA c :
      With2(IF c = 0 THEN hp ELSE Take(hp, c - 1), IF c = 0 THEN <<>> ELSE Drop(hp, c),
            LAMBDA name, port : HostPort(scheme, name, port))))

\* scheme "://" authority path ... of a special scheme: s is what follows ":"
ParseSpecial(scheme, s) ==
  With2(scheme, StripLeading(s, {"/"}), LAMBDA sch, rest :
    With2(HostOf(sch, Before(rest, {"/", "?", "#"})), From(rest, {"/", "?", "#"}),
          LAMBDA host, tail :
            IF host = <<>> THEN NoURL
            ELSE [ok |-> TRUE, scheme |-> sch, slashes |-> TRUE, host |-> host,
                  pathname |-> NormalizePath(PathOf(tail)),
                  search |-> SearchOf(tail), hash |-> HashOf(tail)]))

\* a URL of a scheme that is not special: the host is whatever follows "//"
ParseOther(scheme, s) ==
  With2(scheme, s, LAMBDA sch, v :
    IF StartsWith(v, <<"/", "/">>)
    THEN With(Drop(v, 2), LAMBDA rest :
           With(From(rest, {"/", "?", "#"}), LAMBDA tail :
             [ok |-> TRUE, scheme |-> sch, slashes |-> TRUE,
              host |-> Before(rest, {"/", "?", "#"}),
              pathname |-> PathOf(tail), search |-> SearchOf(tail),
              hash |-> HashOf(tail)]))
    ELSE [ok |-> TRUE, scheme |-> sch, slashes |-> FALSE, host |-> <<>>,
          pathname |-> PathOf(v), search |-> SearchOf(v), hash |-> HashOf(v)])

\* new URL(input): the input must carry its own scheme
ParseAbsolute(input) ==
  With2(input, SchemeLen(input), LAMBDA v, n :
    IF n = 0 THEN NoURL
    ELSE With(ToLower(Take(v, n)), LAMBDA scheme :
           IF scheme \in SpecialSchemes THEN ParseSpecial(scheme, Drop(v, n + 1))
           ELSE ParseOther(scheme, Drop(v, n + 1))))

\* the directory of a base path followed by a relative path
MergePath(basePath, rel) ==
  With(basePath, LAMBDA b : Take(b, LastIndex(b, {"/"})) \o rel)

\* new URL(input, base), base being a parsed special URL
ParseRelative(input, base) ==
  With2(input, base, LAMBDA v, b :
    IF SchemeLen(v) > 0 THEN ParseAbsolute(v)
    ELSE IF StartsWith(v, <<"/", "/">>)
    THEN ParseSpecial(b.scheme, Drop(v, 2))
    ELSE IF StartsWith(v, <<"/">>)
    THEN [b EXCEPT !.pathname = NormalizePath(PathOf(v)),
                   !.search = SearchOf(v), !.hash = HashOf(v)]
    ELSE IF StartsWith(v, <<"?">>)
    THEN [b EXCEPT !.search = SearchOf(v), !.hash = HashOf(v)]
    ELSE IF v = <<>> \/ StartsWith(v, <<"#">>)
    THEN [b EXCEPT !.hash = HashOf(v)]
    ELSE [b EXCEPT !.pathname = NormalizePath(MergePath(b.pathname, PathOf(v))),
                   !.search = SearchOf(v), !.hash = HashOf(v)])

\* new URL(input, base) for a base given as a string; fails when base fails
NewURL(input, baseString) ==
  With(ParseAbsolute(baseString), LAMBDA base :
    IF ~base.ok THEN NoURL
    ELSE IF base.scheme \in SpecialSchemes THEN ParseRelative(input, base)
    ELSE ParseAbsolute(input))

\* url.toString()
Href(u) ==
  With(u, LAMBDA v :
    v.scheme \o <<":">> \o (IF v.slashes THEN <<"/", "/">> \o v.host ELSE <<>>)
      \o v.pathname \o v.search \o v.hash)

(***************************************************************************)
(* NameDeriver and LocalityClassifier                                      *)
(***************************************************************************)
HttpPrefix == <<"h", "t", "t", "p", ":", "/", "/">>
HttpsPrefix == <<"h", "t", "t", "p", "s", ":", "/", "/">>

\* faulty variant: the protocol is kept
KeepProtocol(url) == url

\* url.replace(/^https?:\/\//i, '')
StripProtocol(url) ==
  With2(url, ToLower(url), LAMBDA v, low :
    IF StartsWith(low, HttpsPrefix) THEN Drop(v, Len(HttpsPrefix))
    ELSE IF StartsWith(low, HttpPrefix) THEN Drop(v, Len(HttpPrefix))
    ELSE v)

\* faulty variant: the class without its i flag
HyphenateLowerOnly(s) ==
  With(s, LAMBDA v :
    IF v = <<>> THEN <<>>
    ELSE [i \in 1..Len(v) |-> IF v[i] \in Range(Lower) \cup Digits THEN v[i] ELSE "-"])

\* s.replace(/[^a-z0-9]/gi, '-')
Hyphenate(s) ==
  With(s, LAMBDA v :
    IF v = <<>> THEN <<>>
    ELSE [i \in 1..Len(v) |-> IF v[i] \in Alnum THEN v[i] ELSE "-"])

generateFileName(url) == Hyphenate(StripProtocol(url))

HtmlSuffix == <<".", "h", "t", "m", "l">>
\* faulty variant: a hyphen for the underscore
FilesSuffixDashed == <<"-", "f", "i", "l", "e", "s">>
FilesSuffix == <<"_", "f", "i", "l", "e", "s">>
generateHtmlFileName(url) == generateFileName(url) \o HtmlSuffix
generateFilesDirName(url) == generateFileName(url) \o FilesSuffix

\* path.basename(p): the last segment of p, a trailing "/" ignored
BaseName(p) ==
  With(p, LAMBDA v :
    With(IF Len(v) > 1 /\ v[Len(v)] = "/" THEN Take(v, Len(v) - 1) ELSE v,
         LAMBDA noTrail : Drop(noTrail, LastIndex(noTrail, {"/"}))))

\* faulty variant: the extension is taken from the last "." of the whole path
ExtNameOfPath(p) ==
  With(p, LAMBDA v :
    With(LastIndex(v, {"."}), LAMBDA dot :
      IF dot <= 1 THEN <<>> ELSE Drop(v, dot - 1)))

\* path.extname(p): from the last "." of the last segment of p on, empty when
\* that segment has no "." or only a leading one
ExtName(p) ==
  With(BaseName(p), LAMBDA base :
    With(LastIndex(base, {"."}), LAMBDA dot :
      IF dot <= 1 THEN <<>> ELSE Drop(base, dot - 1)))

\* extension.replace('.', '-'): the first "." only
ReplaceFirstDot(ext) ==
  With2(ext, FirstIndex(ext, {"."}), LAMBDA v, d :
    IF d = 0 THEN v ELSE Take(v, d - 1) \o <<"-">> \o Drop(v, d))

\* lines 50-56 of getLocalFileName
ExtensionOf(pathname) ==
  With(pathname, LAMBDA p :
    IF p = <<>> \/ p = <<"/">> THEN HtmlSuffix
    ELSE With(ExtName(Before(p, {"?"})), LAMBDA ext :
           IF ext = <<>> THEN HtmlSuffix ELSE ext))

\* faulty variant: the extension is appended to the whole name
StemKept(fileName, extension) == fileName \o extension

\* lines 58-62 of getLocalFileName
StemAndExtension(fileName, extension) ==
  With2(fileName, extension, LAMBDA f, ext :
    (IF EndsWith(f, ReplaceFirstDot(ext)) THEN Take(f, Len(f) - Len(ext)) ELSE f)
      \o ext)

getLocalFileName(resourceUrl, baseUrl) ==
  With(NewURL(resourceUrl, baseUrl), LAMBDA urlObj :
    StemAndExtension(Hyphenate(StripProtocol(Href(urlObj))),
                     ExtensionOf(urlObj.pathname)))

\* faulty variant: every reference that resolves counts as local
isResolvable(resourceUrl, pageUrl) ==
  With2(NewURL(resourceUrl, pageUrl), ParseAbsolute(pageUrl),
        LAMBDA resourceFullUrl, page : resourceFullUrl.ok /\ page.ok)

\* faulty variant: host names are compared, ports left out
isLocalByHostname(resourceUrl, pageUrl) ==
  With2(NewURL(resourceUrl, pageUrl), ParseAbsolute(pageUrl),
        LAMBDA resourceFullUrl, page :
          IF ~resourceFullUrl.ok \/ ~page.ok THEN FALSE
          ELSE Before(resourceFullUrl.host, {":"}) = Before(page.host, {":"}))

\* the catch of isLocalResource turns a failed new URL() into false
isLocalResource(resourceUrl, pageUrl) ==
  With2(NewURL(resourceUrl, pageUrl), ParseAbsolute(pageUrl),
        LAMBDA resourceFullUrl, page :
          IF ~resourceFullUrl.ok \/ ~page.ok THEN FALSE
          ELSE resourceFullUrl.host = page.host)


(***************************************************************************)
(* Bounds and input catalogues                                             *)
(***************************************************************************)
\* the longest fetched document, in elements
MaxElems == 2

\* the source URLs given to pageLoader: two pages, and the invalid URLs of
\* the test "should throw error for invalid URL" (part_008, lines 26-33)
PageUrl == <<"h", "t", "t", "p", "s", ":", "/", "/", "e", "x", "a", "m", "p", "l", "e", ".", "c", "o", "m", "/", "p", "a", "g", "e">>
BlogUrl == <<"h", "t", "t", "p", ":", "/", "/", "e", "x", "a", "m", "p", "l", "e", ".", "c", "o", "m", ":", "8", "1", "/", "b", "l", "o", "g", "/">>
InvalidUrls ==
  {<<"n", "o", "t", "-", "a", "-", "u", "r", "l">>, <<"f", "t", "p", ":", "/", "/", "e", "x", "a", "m", "p", "l", "e", ".", "c", "o", "m">>, <<"e", "x", "a", "m", "p", "l", "e", ".", "c", "o", "m">>,
   <<"h", "t", "t", "p", ":", "/", "/">>, <<"h", "t", "t", "p", "s", ":", "/", "/">>, <<>>}
SourceUrls == {PageUrl, BlogUrl} \cup InvalidUrls

\* what fs.access and fs.stat can report of the output path
OutputPaths ==
  {[exists |-> FALSE, writable |-> FALSE, isDirectory |-> FALSE, dir |-> "outputDir"],
   [exists |-> TRUE, writable |-> TRUE, isDirectory |-> TRUE, dir |-> "outputDir"],
   [exists |-> TRUE, writable |-> FALSE, isDirectory |-> TRUE, dir |-> "outputDir"],
   [exists |-> TRUE, writable |-> TRUE, isDirectory |-> FALSE, dir |-> "outputDir"],
   [exists |-> TRUE, writable |-> FALSE, isDirectory |-> FALSE, dir |-> "outputDir"]}

\* elements a fetched page is made of: tag, rel and the value of src (img,
\* script) or href (link); an absent attribute reads as the empty value
Elem(tag, rel, attr) == [tag |-> tag, rel |-> rel, attr |-> attr]
Elements ==
  {Elem("img", "", <<"/", "i", "m", "a", "g", "e", ".", "p", "n", "g">>),
   Elem("img", "", <<"h", "t", "t", "p", "s", ":", "/", "/", "c", "d", "n", ".", "c", "o", "m", "/", "p", "i", "c", ".", "p", "n", "g">>),
   Elem("img", "", <<>>),
   Elem("link", "stylesheet", <<"/", "s", "t", "y", "l", "e", ".", "c", "s", "s">>),
   Elem("link", "canonical", <<"h", "t", "t", "p", "s", ":", "/", "/", "e", "x", "a", "m", "p", "l", "e", ".", "c", "o", "m", "/", "p", "a", "g", "e">>),
   Elem("link", "icon", <<"/", "f", "a", "v", "i", "c", "o", "n", ".", "i", "c", "o">>),
   Elem("script", "", <<"/", "/", "e", "x", "a", "m", "p", "l", "e", ".", "c", "o", "m", ":", "8", "1", "/", "a", "p", "p", ".", "j", "s">>),
   Elem("script", "", <<"j", "s", "/", "a", "p", "p", ".", "j", "s">>)}

RECURSIVE SeqsUpTo(_, _)
SeqsUpTo(set, n) ==
  IF n = 0 THEN {<<>>}
  ELSE LET shorter == SeqsUpTo(set, n - 1) IN
       shorter \cup {Append(s, e) : s \in {x \in shorter : Len(x) = n - 1}, e \in set}

\* a response body: its elements, and whether the markup already is a whole
\* document (html, head and body written out) as $.html() prints one
Body(full, elems) == [full |-> full, elems |-> elems]
\* the page of the test "should download page with resources and show
\* progress", and a page with a reference new URL() rejects
ScenarioDocument ==
  Body(TRUE, <<Elem("link", "stylesheet", <<"/", "s", "t", "y", "l", "e", ".", "c", "s", "s">>),
               Elem("img", "", <<"/", "i", "m", "a", "g", "e", ".", "p", "n", "g">>),
               Elem("script", "", <<"/", "s", "c", "r", "i", "p", "t", ".", "j", "s">>)>>)
MalformedDocument ==
  Body(TRUE, <<Elem("img", "", <<"h", "t", "t", "p", ":", "/", "/">>), Elem("img", "", <<"/", "i", "m", "a", "g", "e", ".", "p", "n", "g">>)>>)

\* a page that references /page, /page.html and /page-html
SiblingsDocument ==
  Body(TRUE, <<Elem("img", "", <<"/", "p", "a", "g", "e">>), Elem("img", "", <<"/", "p", "a", "g", "e", ".", "h", "t", "m", "l">>),
               Elem("img", "", <<"/", "p", "a", "g", "e", "-", "h", "t", "m", "l">>)>>)

\* a page whose two images are different resources of the same local file name
CollidingDocument ==
  Body(TRUE, <<Elem("img", "", <<"/", "a", "/", "b", ".", "p", "n", "g">>), Elem("img", "", <<"/", "a", "-", "b", ".", "p", "n", "g">>)>>)

Documents ==
  {Body(full, elems) : full \in BOOLEAN, elems \in SeqsUpTo(Elements, MaxElems)}
    \cup {ScenarioDocument, MalformedDocument, CollidingDocument, SiblingsDocument}

\* bodies a resource GET can return
Bodies == {"bytes1", "bytes2"}

\* final statuses and transport errors of a GET
Statuses == {199, 200, 399, 400, 404, 500}
TransportErrors == {"ENOTFOUND", "ECONNREFUSED", "ETIMEDOUT", "ECONNRESET"}
Response(status) == [status |-> status, code |-> ""]
Transport(code) == [status |-> 0, code |-> code]
GetOutcomes == {Response(s) : s \in Statuses} \cup {Transport(c) : c \in TransportErrors}

\* faulty variant: client errors are let through
ValidateStatusBelow500(status) == status >= 200 /\ status < 500

\* validateStatus of both axios.get calls
ValidateStatus(status) == status >= 200 /\ status < 400

\* axios issues a request only for the protocols its http adapter supports
AxiosSupports(u) == u.scheme \in {<<"h", "t", "t", "p">>, <<"h", "t", "t", "p", "s">>}

(***************************************************************************)
(* Errors                                                                  *)
(***************************************************************************)
NoError == [name |-> "", message |-> <<>>, code |-> "", statusCode |-> 0]
PageLoaderError(message, code) ==
  [name |-> "PageLoaderError", message |-> message, code |-> code, statusCode |-> 0]
NetworkError(message, code, statusCode) ==
  [name |-> "NetworkError", message |-> message, code |-> code, statusCode |-> statusCode]
FileSystemError(message, code) ==
  [name |-> "FileSystemError", message |-> message, code |-> code, statusCode |-> 0]
\* an error of fs/promises, as the runtime raises it
FsErrorCodes == {"EACCES", "ENOSPC"}
SystemError(syscall, code) ==
  [name |-> "Error", message |-> <<syscall>>, code |-> code, statusCode |-> 0]

(***************************************************************************)
(* The markup collaborator: cheerio.load, selectors, $.html()              *)
(***************************************************************************)
\* selector and attribute of resourceTags: img, link[rel="stylesheet"],
\* link[rel="canonical"], script
resourceTags ==
  <<[tag |-> "img", rel |-> ""], [tag |-> "link", rel |-> "stylesheet"],
    [tag |-> "link", rel |-> "canonical"], [tag |-> "script", rel |-> ""]>>

Matches(el, sel) == el.tag = sel.tag /\ (sel.rel = "" \/ el.rel = sel.rel)

\* the elements of dom from position i on that match sel and carry a local
\* reference, in document order, as positions of dom
RECURSIVE Select(_, _, _, _)
Select(dom, sel, baseUrl, i) ==
  IF i > Len(dom) THEN <<>>
  ELSE (IF /\ Matches(dom[i], sel)
           /\ dom[i].attr # <<>>
           /\ isLocalResource(dom[i].attr, baseUrl)
        THEN <<i>> ELSE <<>>) \o Select(dom, sel, baseUrl, i + 1)

\* the resources array of processHtml: one selector after the other
RECURSIVE ScanFrom(_, _, _)
ScanFrom(dom, baseUrl, k) ==
  IF k > Len(resourceTags) THEN <<>>
  ELSE Select(dom, resourceTags[k], baseUrl, 1) \o ScanFrom(dom, baseUrl, k + 1)
Scan(dom, baseUrl) == ScanFrom(dom, baseUrl, 1)

\* cheerio.load(html): the elements of the markup, in a whole document
Load(body) == body.elems

\* $.html(): the markup of the whole document
Html(d) == Body(TRUE, d)

\* faulty variant: the directory is made whatever the scan found
AlwaysMkdir(res) == "mkdir"

\* processHtml, lines 153-157: without resources $.html() is returned at
\* once, otherwise fs.mkdir is issued
AfterScan(res) == IF res = <<>> THEN "write_html" ELSE "mkdir"

(***************************************************************************)
(* State                                                                   *)
(***************************************************************************)
VARIABLES
  platform,     \* process.platform of the host
  call,         \* a name function called on its own: arguments and return value
  earlier,      \* the run made before this one: what it was answered
  other,        \* the invocation of pageLoader the process is not running now
  url,          \* the source URL of the run
  outputPath,   \* what the file system reports of outputDir
  pc,           \* where pageLoader is
  err,          \* the error pageLoader rejected with
  result,       \* the path pageLoader resolved with
  rootOutcome,  \* what the root GET ended with
  fetched,      \* the document of the root response
  dom,          \* the parsed document, attributes rewritten in place
  resources,    \* the resources array: positions of dom
  dl,           \* per resource: its download unit
  requests,     \* the GET requests issued, in order
  htmlFile,     \* the HTML file of the run: its name and content
  filesDir,     \* does the resources directory exist
  files         \* the files of the resources directory: name -> content

vars == <<platform, call, earlier, other, url, outputPath, pc, err, result, rootOutcome, fetched, dom, resources,
          dl, requests, htmlFile, filesDir, files>>

NoFile == [written |-> FALSE, name |-> <<>>, content |-> Body(FALSE, <<>>)]
NoResult == [resolved |-> FALSE, dir |-> "", name |-> <<>>]
NoOutcome == [status |-> 0, code |-> ""]
NoCall == [fn |-> "", args |-> <<>>, ret |-> <<>>]
NoEarlier == [ran |-> FALSE, fetched |-> Body(FALSE, <<>>), ok |-> {}]
NoOther == [active |-> FALSE]

\* the hosts path.join is written for
Platforms == {"posix", "win32"}

\* pageLoader(url, outputDir) is called on a POSIX host
Init ==
  /\ platform = "posix"
  /\ call = NoCall
  /\ earlier = NoEarlier
  /\ other = NoOther
  /\ url \in SourceUrls
  /\ outputPath \in OutputPaths
  /\ pc = "idle"
  /\ err = NoError
  /\ result = NoResult
  /\ rootOutcome = NoOutcome
  /\ fetched = Body(FALSE, <<>>)
  /\ dom = <<>>
  /\ resources = <<>>
  /\ dl = <<>>
  /\ requests = <<>>
  /\ htmlFile = NoFile
  /\ filesDir = FALSE
  /\ files = <<>>

Fail(e) == pc' = "Failed" /\ err' = e

\* path.join(a, b) of two names without separators or dot segments: joined
\* by path.sep of the host
PathSep == IF platform = "win32" THEN "\\" ELSE "/"
PathJoin(a, b) == a \o <<PathSep>> \o b

(***************************************************************************)
(* pageLoader (part_007, lines 175-244)                                    *)
(***************************************************************************)
htmlFileName == generateHtmlFileName(url)
filesDirName == generateFilesDirName(url)

\* faulty variant: the source URL is not looked at before the output directory
ValidateUrlDeferred ==
  /\ pc = "idle"
  /\ pc' = "access_f" /\ err' = err
  /\ UNCHANGED <<platform, call, earlier, other, url, outputPath, result, rootOutcome, fetched, dom, resources,
                 dl, requests, htmlFile, filesDir, files>>

\* lines 178-187: new URL(url) throws, or validateOutputDirectory is entered
\* and its first fs.access is issued
ValidateUrl ==
  /\ pc = "idle"
  /\ IF ParseAbsolute(url).ok
     THEN pc' = "access_f" /\ err' = err
     ELSE Fail(PageLoaderError(<<"Invalid URL">>, "INVALID_URL"))
  /\ UNCHANGED <<platform, call, earlier, other, url, outputPath, result, rootOutcome, fetched, dom, resources,
                 dl, requests, htmlFile, filesDir, files>>

\* faulty variant: the existence check never fails
AccessExistsAssumed ==
  /\ pc = "access_f"
  /\ pc' = "access_w" /\ err' = err
  /\ UNCHANGED <<platform, call, earlier, other, url, outputPath, result, rootOutcome, fetched, dom, resources,
                 dl, requests, htmlFile, filesDir, files>>

\* validateOutputDirectory, lines 83-90: fs.access(outputDir, F_OK) settles
AccessExists ==
  /\ pc = "access_f"
  /\ IF outputPath.exists
     THEN pc' = "access_w" /\ err' = err
     ELSE Fail(FileSystemError(<<"Output directory does not exist">>, "ENOENT"))
  /\ UNCHANGED <<platform, call, earlier, other, url, outputPath, result, rootOutcome, fetched, dom, resources,
                 dl, requests, htmlFile, filesDir, files>>

\* lines 92-99: fs.access(outputDir, W_OK) settles
AccessWritable ==
  /\ pc = "access_w"
  /\ IF outputPath.exists /\ outputPath.writable
     THEN pc' = "stat" /\ err' = err
     ELSE Fail(FileSystemError(<<"No write permission for output directory">>, "EACCES"))
  /\ UNCHANGED <<platform, call, earlier, other, url, outputPath, result, rootOutcome, fetched, dom, resources,
                 dl, requests, htmlFile, filesDir, files>>

\* what the try of lines 101-108 throws: the ENOENT of fs.stat, the ENOTDIR
\* FileSystemError, or nothing
StatThrown(path) ==
  IF ~path.exists THEN SystemError("stat", "ENOENT")
  ELSE IF ~path.isDirectory
  THEN FileSystemError(<<"Output path is not a directory">>, "ENOTDIR")
  ELSE NoError

\* faulty variant: the catch swallows every error
StatSwallowed(thrown) == NoError

\* the catch of lines 109-116: every error but ENOENT is wrapped and rethrown
StatRethrown(thrown) ==
  IF thrown = NoError \/ thrown.code = "ENOENT" THEN NoError
  ELSE FileSystemError(<<"Cannot access output directory">> \o thrown.message,
                       thrown.code)

\* lines 101-117 and 189: fs.stat settles; when validation returns, the root
\* GET is issued (axios rejects an unsupported protocol without a request)
StatIsDirectory ==
  /\ pc = "stat"
  /\ LET e == StatRethrown(StatThrown(outputPath)) IN
     IF e = NoError
     THEN /\ pc' = "root_get"
          /\ err' = err
          /\ requests' = IF AxiosSupports(ParseAbsolute(url))
                         THEN Append(requests, [who |-> 0, url |-> url])
                         ELSE requests
     ELSE Fail(e) /\ requests' = requests
  /\ UNCHANGED <<platform, call, earlier, other, url, outputPath, result, rootOutcome, fetched, dom, resources,
                 dl, htmlFile, filesDir, files>>

\* faulty variant: transport errors are not told apart
RootErrorGeneric(outcome, u) ==
  IF outcome.status # 0
  THEN NetworkError(<<"Failed to load page: <status> <statusText>">>,
                    "HTTP_ERROR", outcome.status)
  ELSE NetworkError(<<"Failed to load page: <message>">>, "NETWORK_ERROR", 0)

\* the catch of lines 196-226
RootError(outcome, u) ==
  IF outcome.status # 0
  THEN NetworkError(<<"Failed to load page: <status> <statusText>">>,
                    "HTTP_ERROR", outcome.status)
  ELSE IF outcome.code = "ENOTFOUND"
  THEN NetworkError(<<"Failed to load page - host not found">>, "ENOTFOUND", 0)
  ELSE IF outcome.code = "ECONNREFUSED"
  THEN NetworkError(<<"Failed to load page - connection refused">>, "ECONNREFUSED", 0)
  ELSE IF outcome.code = "ETIMEDOUT"
  THEN NetworkError(<<"Failed to load page - timeout">>, "ETIMEDOUT", 0)
  ELSE NetworkError(<<"Failed to load page: <message>">>, "NETWORK_ERROR", 0)

\* does axios resolve the GET that ended with outcome
Resolves(outcome) == outcome.status # 0 /\ ValidateStatus(outcome.status)

\* the outcomes the GET of u can end with
OutcomesOf(u) ==
  IF AxiosSupports(u) THEN GetOutcomes ELSE {Transport("ERR_BAD_REQUEST")}

\* response.data of the root GET (line 189): any page of the catalogue; when
\* the run is made again, the page the earlier run was answered with or a
\* page that has changed to an empty one; when two invocations share the
\* process, a page with two references or an empty page
TwoRunPages == {CollidingDocument, Body(TRUE, <<>>)}
PagesServed ==
  IF earlier.ran THEN {earlier.fetched, Body(TRUE, <<>>)}
  ELSE IF other.active THEN TwoRunPages
  ELSE Documents

\* lines 189-238 and processHtml, lines 135-157: the root GET settles; on
\* success the document is parsed and scanned, and either $.html() is handed
\* to fs.writeFile (no local resource) or fs.mkdir is issued
RootGetSettles ==
  /\ pc = "root_get"
  /\ \E outcome \in OutcomesOf(ParseAbsolute(url)) :
       /\ rootOutcome' = outcome
       /\ IF Resolves(outcome)
          THEN \E body \in PagesServed :
                 /\ fetched' = body
                 /\ dom' = Load(body)
                 /\ resources' = Scan(Load(body), url)
                 /\ pc' = AfterScan(resources')
                 /\ err' = err
          ELSE /\ Fail(RootError(outcome, url))
               /\ UNCHANGED <<fetched, dom, resources>>
  /\ UNCHANGED <<platform, call, earlier, other, url, outputPath, result, dl, requests, htmlFile, filesDir, files>>

\* a download unit: downloadResource is entered and its axios.get issued
Unit(st, body) == [st |-> st, body |-> body]
Launch(r) == Unit("get", "")

\* the GET requests of the units, in the order of resources.map
RECURSIVE LaunchRequests(_, _, _)
LaunchRequests(res, d, k) ==
  IF k > Len(res) THEN <<>>
  ELSE LET u == NewURL(d[res[k]].attr, url) IN
       (IF AxiosSupports(u) THEN <<[who |-> res[k], url |-> Href(u)]>> ELSE <<>>)
         \o LaunchRequests(res, d, k + 1)

\* faulty variant: fs.mkdir without {recursive: true} rejects an existing
\* directory
MkdirOutcomesExclusive(exists) ==
  IF exists THEN {"EEXIST"} ELSE {"ok"} \cup FsErrorCodes

\* line 157: what fs.mkdir(outputDir, {recursive: true}) settles with, the
\* directory existing or not: with recursive an existing directory is no error
MkdirOutcomes(exists) == {"ok"} \cup FsErrorCodes

\* faulty variant: the download units are launched without awaiting fs.mkdir
MkdirUnawaited ==
  /\ pc = "mkdir"
  /\ dl' = [k \in 1..Len(resources) |-> Launch(resources[k])]
  /\ requests' = requests \o LaunchRequests(resources, dom, 1)
  /\ pc' = "downloads"
  /\ UNCHANGED <<platform, call, earlier, other, url, outputPath, err, result, rootOutcome, fetched, dom,
                 resources, htmlFile, filesDir, files>>

\* faulty variant: a failure of fs.mkdir is caught like the failure of a
\* download, and the document is saved with its references unchanged
MkdirTolerated ==
  /\ pc = "mkdir"
  /\ \E outcome \in MkdirOutcomes(filesDir) :
       IF outcome = "ok"
       THEN /\ filesDir' = TRUE
            /\ dl' = [k \in 1..Len(resources) |-> Launch(resources[k])]
            /\ requests' = requests \o LaunchRequests(resources, dom, 1)
            /\ pc' = "downloads"
       ELSE /\ pc' = "write_html"
            /\ UNCHANGED <<filesDir, dl, requests>>
  /\ UNCHANGED <<platform, call, earlier, other, url, outputPath, err, result, rootOutcome,
                 fetched, dom, resources, htmlFile, files>>

\* processHtml, lines 157-171: fs.mkdir(outputDir, {recursive: true})
\* settles; on success every download unit is launched, on failure
\* processHtml, and with it pageLoader, rejects with the error of fs.mkdir
MkdirSettles ==
  /\ pc = "mkdir"
  /\ \E outcome \in MkdirOutcomes(filesDir) :
       IF outcome = "ok"
       THEN /\ filesDir' = TRUE
            /\ dl' = [k \in 1..Len(resources) |-> Launch(resources[k])]
            /\ requests' = requests \o LaunchRequests(resources, dom, 1)
            /\ pc' = "downloads"
            /\ err' = err
       ELSE /\ Fail(SystemError("mkdir", outcome))
            /\ UNCHANGED <<filesDir, dl, requests>>
  /\ UNCHANGED <<platform, call, earlier, other, url, outputPath, result, rootOutcome, fetched, dom, resources,
                 htmlFile, files>>

ResourceUrl(k) == NewURL(dom[resources[k]].attr, url)
\* the file name downloadResource computed when unit k was launched
LocalFileName(k) == getLocalFileName(fetched.elems[resources[k]].attr, url)

\* faulty variant: a unit whose download threw starts over
Retried(unit) == Unit("get", "")

\* faulty variant: the error of a download leaves its unit uncaught
Uncaught(unit) == Unit("rejected", "")

\* the catch of lines 165-168: a unit whose download threw returns
\* {success: false}; a unit that let the error through would be "rejected"
Failed(unit) == Unit("failed", "")

\* faulty variant: the attribute is set when the GET has succeeded, before
\* the file is written
GetSettlesRewriting(k) ==
  /\ pc = "downloads"
  /\ dl[k].st = "get"
  /\ \E outcome \in OutcomesOf(NewURL(dom[resources[k]].attr, url)) :
       IF Resolves(outcome)
       THEN /\ \E body \in Bodies : dl' = [dl EXCEPT ![k] = Unit("write", body)]
            /\ dom' = [dom EXCEPT ![resources[k]].attr =
                         PathJoin(filesDirName,
                                  getLocalFileName(fetched.elems[resources[k]].attr, url))]
       ELSE dl' = [dl EXCEPT ![k] = Unit("failed", "")] /\ dom' = dom
  /\ UNCHANGED <<platform, call, earlier, other, url, outputPath, pc, err, result, rootOutcome,
                 fetched, resources, requests, htmlFile, filesDir, files>>

\* downloadResource, lines 124-131: the GET of unit k settles; on success
\* fs.writeFile is issued with the body, otherwise the unit has failed
GetSettles(k) ==
  /\ pc = "downloads"
  /\ dl[k].st = "get"
  /\ \E outcome \in OutcomesOf(ResourceUrl(k)) :
       IF Resolves(outcome)
       THEN \E body \in Bodies : dl' = [dl EXCEPT ![k] = Unit("write", body)]
       ELSE dl' = [dl EXCEPT ![k] = Failed(dl[k])]
  /\ UNCHANGED <<platform, call, earlier, other, url, outputPath, pc, err, result, rootOutcome, fetched, dom,
                 resources, requests, htmlFile, filesDir, files>>

\* fs.writeFile(filePath, data) into the resources directory
WriteFile(fs, name, content) ==
  [n \in DOMAIN fs \cup {name} |-> IF n = name THEN content ELSE fs[n]]

\* faulty variant: the units take the elements in the order they complete
RewriteInCompletionOrder(d, k) ==
  LET n == Cardinality({j \in DOMAIN dl : dl[j].st = "ok"}) + 1 IN
  [d EXCEPT ![resources[n]].attr = PathJoin(filesDirName, LocalFileName(k))]

\* faulty variant: the k-th element of the document is rewritten
RewriteAtIndex(d, k) ==
  [d EXCEPT ![k].attr = PathJoin(filesDirName, LocalFileName(k))]

\* lines 162-163: the attribute of the element of unit k is set
Rewrite(d, k) ==
  [d EXCEPT ![resources[k]].attr = PathJoin(filesDirName, LocalFileName(k))]

\* lines 131-132 and 161-168: the fs.writeFile of unit k settles; on success
\* the attribute is rewritten, otherwise the unit has failed
WriteSettles(k) ==
  /\ pc = "downloads"
  /\ dl[k].st = "write"
  /\ \/ /\ files' = WriteFile(files, LocalFileName(k), dl[k].body)
        /\ dom' = Rewrite(dom, k)
        /\ dl' = [dl EXCEPT ![k] = Unit("ok", dl[k].body)]
     \/ /\ dl' = [dl EXCEPT ![k] = Failed(dl[k])]
        /\ UNCHANGED <<files, dom>>
  /\ UNCHANGED <<platform, call, earlier, other, url, outputPath, pc, err, result, rootOutcome, fetched,
                 resources, requests, htmlFile, filesDir>>

\* the error of axios.get or fs.writeFile a rejected unit carries
DownloadError ==
  [name |-> "Error", message |-> <<"download">>, code |-> "", statusCode |-> 0]

\* faulty variant: Promise.all waits until every unit has succeeded
AllSucceeded(d) == \A k \in DOMAIN d : d[k].st = "ok"

\* Promise.all(downloadPromises) is fulfilled once every unit has returned,
\* and rejected as soon as one unit is rejected
AllSettled(d) == \A k \in DOMAIN d : d[k].st \in {"ok", "failed"}
AnyRejected(d) == \E k \in DOMAIN d : d[k].st = "rejected"

\* faulty variant: processHtml returns as soon as one unit has returned
DownloadsRaced ==
  /\ pc = "downloads"
  /\ \E k \in DOMAIN dl : dl[k].st \in {"ok", "failed"}
  /\ pc' = "write_html"
  /\ UNCHANGED <<platform, call, earlier, other, url, outputPath, err, result, rootOutcome, fetched, dom,
                 resources, dl, requests, htmlFile, filesDir, files>>

\* lines 171-172 and 240: Promise.all settles; when it is fulfilled
\* processHtml returns $.html() and pageLoader hands it to fs.writeFile, when
\* it is rejected processHtml and pageLoader reject
DownloadsSettled ==
  /\ pc = "downloads"
  /\ IF AnyRejected(dl)
     THEN Fail(DownloadError)
     ELSE AllSettled(dl) /\ pc' = "write_html" /\ err' = err
  /\ UNCHANGED <<platform, call, earlier, other, url, outputPath, result, rootOutcome, fetched, dom,
                 resources, dl, requests, htmlFile, filesDir, files>>

\* what pageLoader rejects with when fs.writeFile(htmlFilePath, ...) rejects
HtmlWriteError(e) == e

\* faulty variant: pageLoader returns the path without the file written
HtmlWriteUnawaited ==
  /\ pc = "write_html"
  /\ result' = [resolved |-> TRUE, dir |-> outputPath.dir, name |-> htmlFileName]
  /\ pc' = "Done"
  /\ UNCHANGED <<platform, call, earlier, other, url, outputPath, err, rootOutcome, fetched, dom, resources, dl,
                 requests, htmlFile, filesDir, files>>

\* lines 240-243: the write of the HTML file settles
HtmlWriteSettles ==
  /\ pc = "write_html"
  /\ \/ /\ htmlFile' = [written |-> TRUE, name |-> htmlFileName,
                        content |-> Html(dom)]
        /\ result' = [resolved |-> TRUE, dir |-> outputPath.dir, name |-> htmlFileName]
        /\ pc' = "Done"
        /\ err' = err
     \/ /\ \E code \in FsErrorCodes : Fail(HtmlWriteError(SystemError("open", code)))
        /\ UNCHANGED <<htmlFile, result>>
  /\ UNCHANGED <<platform, call, earlier, other, url, outputPath, rootOutcome, fetched, dom, resources, dl,
                 requests, filesDir, files>>

Next ==
  \/ ValidateUrl
  \/ AccessExists
  \/ AccessWritable
  \/ StatIsDirectory
  \/ RootGetSettles
  \/ MkdirSettles
  \/ \E k \in DOMAIN dl : GetSettles(k)
  \/ \E k \in DOMAIN dl : WriteSettles(k)
  \/ DownloadsSettled
  \/ HtmlWriteSettles

Spec == Init /\ [][Next]_vars

\* the most download units a page of the catalogue launches
MaxUnits ==
  CHOOSE n \in 0..8 :
    /\ \A d \in Documents : Len(d.elems) <= n
    /\ \E d \in Documents : Len(d.elems) = n

\* every call issued settles: fs.access, fs.stat, fs.mkdir and fs.writeFile
\* answer, every axios.get ends with a response, an error or its timeout
\* (timeout: 30000, line 191; timeout: 10000, line 127), and the event loop
\* runs the continuation of a settled Promise.all
EveryCallSettles ==
  /\ WF_vars(AccessExists)
  /\ WF_vars(AccessWritable)
  /\ WF_vars(StatIsDirectory)
  /\ WF_vars(RootGetSettles)
  /\ WF_vars(MkdirSettles)
  /\ \A k \in 1..MaxUnits : WF_vars(k \in DOMAIN dl /\ GetSettles(k))
  /\ \A k \in 1..MaxUnits : WF_vars(k \in DOMAIN dl /\ WriteSettles(k))
  /\ WF_vars(DownloadsSettled)
  /\ WF_vars(HtmlWriteSettles)

SpecLive == Init /\ [][Next]_vars /\ EveryCallSettles

\* what a resolved run of pageLoader(p, outputDir) leaves in outputDir when
\* the root GET was answered with body and the download units of set ok
\* succeeded: the HTML file, the resources directory and its files
LeftBy(p, body, ok) ==
  With(Scan(Load(body), p), LAMBDA res :
    [resources |-> res,
     htmlFile |->
       [written |-> TRUE, name |-> generateHtmlFileName(p),
        content |->
          Html([i \in DOMAIN body.elems |->
                  IF \E k \in ok : res[k] = i
                  THEN [body.elems[i] EXCEPT
                          !.attr = generateFilesDirName(p) \o <<"/">>
                                     \o getLocalFileName(body.elems[i].attr, p)]
                  ELSE body.elems[i]])],
     filesDir |-> res # <<>>,
     files |-> [n \in {getLocalFileName(body.elems[res[k]].attr, p) : k \in ok} |->
                  "bytes1"]])

\* the pages of the run that is made twice
RerunDocuments ==
  {ScenarioDocument, CollidingDocument, MalformedDocument, Body(TRUE, <<>>)}

EarlierRuns ==
  UNION {{[ran |-> TRUE, fetched |-> d, ok |-> s] :
            s \in SUBSET (1..Len(Scan(Load(d), PageUrl)))} : d \in RerunDocuments}

\* pageLoader(PageUrl, outputDir) is called again on a POSIX host, into the
\* output directory an earlier resolved run of the same call has left
InitRerun ==
  /\ platform = "posix"
  /\ call = NoCall
  /\ earlier \in EarlierRuns
  /\ other = NoOther
  /\ url = PageUrl
  /\ outputPath = [exists |-> TRUE, writable |-> TRUE, isDirectory |-> TRUE, dir |-> "outputDir"]
  /\ pc = "idle"
  /\ err = NoError
  /\ result = NoResult
  /\ rootOutcome = NoOutcome
  /\ fetched = Body(FALSE, <<>>)
  /\ dom = <<>>
  /\ resources = <<>>
  /\ dl = <<>>
  /\ requests = <<>>
  /\ htmlFile = LeftBy(url, earlier.fetched, earlier.ok).htmlFile
  /\ filesDir = LeftBy(url, earlier.fetched, earlier.ok).filesDir
  /\ files = LeftBy(url, earlier.fetched, earlier.ok).files

SpecRerun == InitRerun /\ [][Next]_vars

\* everything one invocation of pageLoader holds: its arguments, its locals
\* and those of processHtml and downloadResource, and its output directory
Invocation(u, o, p, e, r, ro, f, d, res, units, reqs, h, fd, fs) ==
  [active |-> TRUE, url |-> u, outputPath |-> o, pc |-> p, err |-> e, result |-> r,
   rootOutcome |-> ro, fetched |-> f, dom |-> d, resources |-> res, dl |-> units,
   requests |-> reqs, htmlFile |-> h, filesDir |-> fd, files |-> fs]

Running ==
  Invocation(url, outputPath, pc, err, result, rootOutcome, fetched, dom, resources, dl,
             requests, htmlFile, filesDir, files)

\* faulty variant: the resources array is a binding of the module, the same
\* for both invocations
SwitchSharingResources ==
  /\ other.active
  /\ other' = Running
  /\ url' = other.url /\ outputPath' = other.outputPath /\ pc' = other.pc
  /\ err' = other.err /\ result' = other.result /\ rootOutcome' = other.rootOutcome
  /\ fetched' = other.fetched /\ dom' = other.dom /\ resources' = resources
  /\ dl' = other.dl /\ requests' = other.requests /\ htmlFile' = other.htmlFile
  /\ filesDir' = other.filesDir /\ files' = other.files
  /\ UNCHANGED <<platform, call, earlier>>

\* the event loop turns from one invocation to the other: between two
\* settlements any continuation of either may be the next to run; the module
\* (lines 1-80) binds constants only, so all that an invocation reads or
\* writes is its own
Switch ==
  /\ other.active
  /\ other' = Running
  /\ url' = other.url /\ outputPath' = other.outputPath /\ pc' = other.pc
  /\ err' = other.err /\ result' = other.result /\ rootOutcome' = other.rootOutcome
  /\ fetched' = other.fetched /\ dom' = other.dom /\ resources' = other.resources
  /\ dl' = other.dl /\ requests' = other.requests /\ htmlFile' = other.htmlFile
  /\ filesDir' = other.filesDir /\ files' = other.files
  /\ UNCHANGED <<platform, call, earlier>>

\* pageLoader(PageUrl, 'outputDir') and pageLoader(BlogUrl, 'otherDir') are
\* called in one process on a POSIX host, both directories existing and
\* writable
InitTwoRuns ==
  /\ platform = "posix"
  /\ call = NoCall
  /\ earlier = NoEarlier
  /\ other = Invocation(BlogUrl,
                        [exists |-> TRUE, writable |-> TRUE, isDirectory |-> TRUE,
                         dir |-> "otherDir"],
                        "idle", NoError, NoResult, NoOutcome, Body(FALSE, <<>>), <<>>,
                        <<>>, <<>>, <<>>, NoFile, FALSE, <<>>)
  /\ url = PageUrl
  /\ outputPath = [exists |-> TRUE, writable |-> TRUE, isDirectory |-> TRUE, dir |-> "outputDir"]
  /\ pc = "idle"
  /\ err = NoError
  /\ result = NoResult
  /\ rootOutcome = NoOutcome
  /\ fetched = Body(FALSE, <<>>)
  /\ dom = <<>>
  /\ resources = <<>>
  /\ dl = <<>>
  /\ requests = <<>>
  /\ htmlFile = NoFile
  /\ filesDir = FALSE
  /\ files = <<>>

NextTwoRuns == Next \/ Switch

SpecTwoRuns == InitTwoRuns /\ [][NextTwoRuns]_vars

\* between two awaits of validateOutputDirectory (lines 83, 92, 102) another
\* process removes the output path, replaces it, or changes its mode
PathChanges ==
  /\ pc \in {"access_f", "access_w", "stat"}
  /\ \E p \in OutputPaths : p # outputPath /\ outputPath' = p
  /\ UNCHANGED <<platform, call, earlier, other, url, pc, err, result, rootOutcome, fetched,
                 dom, resources, dl, requests, htmlFile, filesDir, files>>

\* pageLoader(PageUrl, outputDir) is called on a POSIX host while other
\* processes work on the output path
InitRace ==
  /\ platform = "posix"
  /\ call = NoCall
  /\ earlier = NoEarlier
  /\ other = NoOther
  /\ url = PageUrl
  /\ outputPath \in OutputPaths
  /\ pc = "idle"
  /\ err = NoError
  /\ result = NoResult
  /\ rootOutcome = NoOutcome
  /\ fetched = Body(FALSE, <<>>)
  /\ dom = <<>>
  /\ resources = <<>>
  /\ dl = <<>>
  /\ requests = <<>>
  /\ htmlFile = NoFile
  /\ filesDir = FALSE
  /\ files = <<>>

NextRace == Next \/ PathChanges

SpecRace == InitRace /\ [][NextRace]_vars

\* pageLoader(PageUrl, outputDir) is called on either host, outputDir an
\* existing writable directory
InitPlatform ==
  /\ platform \in Platforms
  /\ call = NoCall
  /\ earlier = NoEarlier
  /\ other = NoOther
  /\ url = PageUrl
  /\ outputPath = [exists |-> TRUE, writable |-> TRUE, isDirectory |-> TRUE, dir |-> "outputDir"]
  /\ pc = "idle"
  /\ err = NoError
  /\ result = NoResult
  /\ rootOutcome = NoOutcome
  /\ fetched = Body(FALSE, <<>>)
  /\ dom = <<>>
  /\ resources = <<>>
  /\ dl = <<>>
  /\ requests = <<>>
  /\ htmlFile = NoFile
  /\ filesDir = FALSE
  /\ files = <<>>

SpecPlatform == InitPlatform /\ [][Next]_vars

(***************************************************************************)
(* The name functions called on their own                                  *)
(***************************************************************************)
\* bound of the generated URL tails
MaxLen == 2

\* URLs the name functions are called with: a scheme in either case, a host
\* and every tail of at most MaxLen characters; and the URLs of the tests
\* "should generate correct filename from URL" and "should throw error for
\* invalid URL" that new URL() accepts
TailChars == {"a", "B", "/", "."}
UrlSchemes == {<<"h", "t", "t", "p", ":", "/", "/">>, <<"h", "t", "t", "p", "s", ":", "/", "/">>, <<"H", "T", "T", "P", ":", "/", "/">>}
UrlHost == <<"h", "7", ".", "i", "o">>
UrlInputs == {sch \o UrlHost \o t : sch \in UrlSchemes, t \in SeqsUpTo(TailChars, MaxLen)}
TestUrls ==
  {<<"h", "t", "t", "p", "s", ":", "/", "/", "r", "u", ".", "h", "e", "x", "l", "e", "t", ".", "i", "o", "/", "c", "o", "u", "r", "s", "e", "s">>, <<"h", "t", "t", "p", ":", "/", "/", "e", "x", "a", "m", "p", "l", "e", ".", "c", "o", "m", "/", "p", "a", "g", "e", ".", "h", "t", "m", "l">>,
   <<"h", "t", "t", "p", "s", ":", "/", "/", "s", "i", "t", "e", ".", "c", "o", "m", "/", "p", "a", "t", "h", "/", "t", "o", "/", "p", "a", "g", "e">>, <<"f", "t", "p", ":", "/", "/", "e", "x", "a", "m", "p", "l", "e", ".", "c", "o", "m">>}

\* references getLocalFileName and isLocalResource are called with, against
\* the two pages
ResourceInputs ==
  {<<"/", "i", "m", "a", "g", "e", ".", "p", "n", "g">>, <<"/", "s", "t", "y", "l", "e", ".", "c", "s", "s">>, <<"/", "s", "c", "r", "i", "p", "t", ".", "j", "s">>, <<"/">>, <<>>,
   <<"/", "d", "o", "c", "s", "/", "h", "t", "m", "l">>, <<"/", "a", ".", "t", "a", "r", ".", "g", "z">>, <<"/", "i", "m", "a", "g", "e", ".", "p", "n", "g", "?", "v", "=", "1">>, <<"/", "d", "a", "t", "a", ".", "j", "s", "o", "n", "#", "t", "o", "p">>,
   <<"j", "s", "/", "a", "p", "p", ".", "j", "s">>, <<"/", "/", "e", "x", "a", "m", "p", "l", "e", ".", "c", "o", "m", ":", "8", "1", "/", "a", "p", "p", ".", "j", "s">>, <<"h", "t", "t", "p", "s", ":", "/", "/", "c", "d", "n", ".", "c", "o", "m", "/", "p", "i", "c", ".", "p", "n", "g">>,
   <<"h", "t", "t", "p", "s", ":", "/", "/", "e", "x", "a", "m", "p", "l", "e", ".", "c", "o", "m">>, <<"/", "d", "i", "r", ".", "d", "/", "f", "i", "l", "e">>, <<"/", ".", "b", "a", "s", "h", "r", "c">>, <<"/", "a", ".", "b", "/">>,
   <<"H", "T", "T", "P", ":", "/", "/", "E", "X", "A", "M", "P", "L", "E", ".", "C", "O", "M", "/", "L", "o", "g", "o", ".", "P", "N", "G">>, <<"h", "t", "t", "p", ":", "/", "/">>,
   <<"/", ".", ".", "/", "u", "p", ".", "p", "n", "g">>, <<"/", "a", "/", ".", ".">>, <<"/", "a", ".", "b", "/", "c", ".", "d", "/", "e">>, <<"/", "a", "/", "b", ".", ".">>}
PageInputs == {PageUrl, BlogUrl}

NameCalls ==
  {[fn |-> "generateFileName", args |-> <<u, v>>, ret |-> <<>>] :
     u \in UrlInputs, v \in UrlInputs}
  \cup {[fn |-> "generateFileName", args |-> <<u>>, ret |-> <<>>] : u \in TestUrls}
  \cup {[fn |-> "getLocalFileName", args |-> <<r, b>>, ret |-> <<>>] :
          r \in ResourceInputs, b \in PageInputs}

runVars == <<earlier, other, url, outputPath, pc, err, result, rootOutcome, fetched, dom,
             resources, dl, requests, htmlFile, filesDir, files>>

\* what an earlier run of pageLoader(PageUrl, outputDir) left on disk
EarlierFile ==
  [written |-> TRUE, name |-> generateHtmlFileName(PageUrl), content |-> Body(TRUE, <<>>)]

\* the calls made in every state of the output path and of the files an
\* earlier run left
InAnyEnvironment(c) == Len(c.args) = 1

\* no run of pageLoader is under way; one call is about to be made
InitNames ==
  /\ platform \in Platforms
  /\ call \in NameCalls
  /\ earlier = NoEarlier
  /\ other = NoOther
  /\ url = PageUrl
  /\ outputPath \in IF InAnyEnvironment(call) THEN OutputPaths
                    ELSE {[exists |-> TRUE, writable |-> TRUE, isDirectory |-> TRUE, dir |-> "outputDir"]}
  /\ pc = "idle"
  /\ err = NoError
  /\ result = NoResult
  /\ rootOutcome = NoOutcome
  /\ fetched = Body(FALSE, <<>>)
  /\ dom = <<>>
  /\ resources = <<>>
  /\ dl = <<>>
  /\ requests = <<>>
  /\ htmlFile \in IF InAnyEnvironment(call) THEN {NoFile, EarlierFile} ELSE {NoFile}
  /\ filesDir \in IF InAnyEnvironment(call) THEN BOOLEAN ELSE {FALSE}
  /\ files = <<>>

\* faulty variant: the suffix of the document name follows the host
NamesOfByPlatform(u) ==
  [base |-> generateFileName(u),
   html |-> generateFileName(u) \o (IF platform = "win32" THEN <<".", "h", "t", "m">> ELSE HtmlSuffix),
   dir |-> generateFilesDirName(u)]

\* lines 34-40: the three names of one URL
NamesOf(u) ==
  [base |-> generateFileName(u),
   html |-> generateHtmlFileName(u),
   dir |-> generateFilesDirName(u)]

\* generateFileName, generateHtmlFileName and generateFilesDirName return for
\* each URL of the call
CallGenerateFileName ==
  /\ call.fn = "generateFileName"
  /\ call.ret = <<>>
  /\ call' = [call EXCEPT !.ret = [j \in DOMAIN call.args |-> NamesOf(call.args[j])]]
  /\ UNCHANGED <<platform, runVars>>

\* what a call ends with: a value returned, or the TypeError of new URL()
Returns(value) == [threw |-> FALSE, value |-> value]
Throws == [threw |-> TRUE, value |-> <<>>]

\* getLocalFileName, lines 42-63, returns or throws at line 43
CallGetLocalFileName ==
  /\ call.fn = "getLocalFileName"
  /\ call.ret = <<>>
  /\ call' = [call EXCEPT !.ret =
                IF NewURL(call.args[1], call.args[2]).ok
                THEN <<Returns(getLocalFileName(call.args[1], call.args[2]))>>
                ELSE <<Throws>>]
  /\ UNCHANGED <<platform, runVars>>

NextNames ==
  \/ CallGenerateFileName
  \/ CallGetLocalFileName

SpecNames == InitNames /\ [][NextNames]_vars

(***************************************************************************)
(* What the claims speak of                                                *)
(***************************************************************************)
Terminated == pc \in {"Done", "Failed"}

\* the root GET ended with a status in [200,400), or ended otherwise
RootAnswered == rootOutcome # NoOutcome
RootOk == RootAnswered /\ rootOutcome.status >= 200 /\ rootOutcome.status < 400
RootFailed == RootAnswered /\ ~RootOk

\* the four tag/attribute pairs of a resource reference
IsResourceElement(el) ==
  \/ el.tag \in {"img", "script"}
  \/ el.tag = "link" /\ el.rel \in {"stylesheet", "canonical"}

\* every reference value of the element catalogue resolved against every
\* source URL, and the local file name of those that resolve
AttrValues == UNION {{d.elems[i].attr : i \in DOMAIN d.elems} : d \in Documents}
Resolved == [p \in SourceUrls |-> [a \in AttrValues |-> NewURL(a, p)]]
PageHost == [p \in SourceUrls |-> ParseAbsolute(p).host]
LocalNames ==
  [p \in SourceUrls |->
     [a \in AttrValues |->
        IF ParseAbsolute(p).ok /\ Resolved[p][a].ok
        THEN getLocalFileName(a, p) ELSE <<>>]]

HttpScheme == <<"h", "t", "t", "p">>
HttpsScheme == <<"h", "t", "t", "p", "s">>

\* the reference resolves against the page, to the host of the page or to
\* another host
SameHost(a) == Resolved[url][a].ok /\ Resolved[url][a].host = PageHost[url]
OtherHost(a) == Resolved[url][a].ok /\ Resolved[url][a].host # PageHost[url]

OriginalAttr(i) == fetched.elems[i].attr
SavedAttr(i) == htmlFile.content.elems[i].attr

\* the positions of the local resource references of the fetched document
LocalReferences ==
  {i \in DOMAIN fetched.elems :
     /\ IsResourceElement(fetched.elems[i])
     /\ OriginalAttr(i) # <<>>
     /\ SameHost(OriginalAttr(i))}

\* the download units that succeeded (GET and file write), and those that did not
Succeeded == {k \in DOMAIN dl : dl[k].st = "ok"}
Unsuccessful == {k \in DOMAIN dl : dl[k].st \in {"failed", "rejected"}}

\* references of the saved document rewritten to a file of the resources
\* directory, and references left as they were fetched
RewrittenRefs ==
  {i \in LocalReferences :
     /\ SavedAttr(i) # OriginalAttr(i)
     /\ \E n \in DOMAIN files : SavedAttr(i) = filesDirName \o <<"/">> \o n}
UnchangedRefs == {i \in LocalReferences : SavedAttr(i) = OriginalAttr(i)}

NameOf(k) == LocalNames[url][OriginalAttr(resources[k])]
SucceededNames == {NameOf(k) : k \in Succeeded}

AllAttempted ==
  /\ Len(dl) = Len(resources)
  /\ \A k \in DOMAIN dl :
       Resolved[url][OriginalAttr(resources[k])].scheme \in {HttpScheme, HttpsScheme} =>
         \E r \in DOMAIN requests : requests[r].who = resources[k]

C2_ResourceFailureIsolated ==
  Unsuccessful # {} =>
    /\ AllAttempted
    /\ \A k \in Unsuccessful : dom[resources[k]].attr = OriginalAttr(resources[k])
    /\ Terminated => AllSettled(dl)
    /\ pc = "Failed" => err.name = "Error" /\ err.message = <<"open">>
    /\ pc = "Done" =>
         /\ htmlFile.written
         /\ result = [resolved |-> TRUE, dir |-> "outputDir", name |-> htmlFileName]
         /\ \A k \in Unsuccessful : SavedAttr(resources[k]) = OriginalAttr(resources[k])

\* a finished run in which one download failed and its sibling succeeded
C2_Witness ==
  /\ pc = "Done"
  /\ Unsuccessful # {}
  /\ Succeeded # {}

(***************************************************************************)
(* C3: a reference that resolves to another host than the page's is never  *)
(* requested and its attribute never changed, whatever the local           *)
(* references of the same document do.                                     *)
(***************************************************************************)
ExternalReferences ==
  {i \in DOMAIN fetched.elems : OtherHost(OriginalAttr(i))}

C3_ExternalUntouched ==
  \A i \in ExternalReferences :
    /\ dom[i].attr = OriginalAttr(i)
    /\ htmlFile.written => SavedAttr(i) = OriginalAttr(i)
    /\ \A r \in DOMAIN requests :
         /\ requests[r].who # i
         /\ requests[r].url # Href(Resolved[url][OriginalAttr(i)])

\* a finished run whose document holds an external resource tag beside a
\* local reference that was downloaded
C3_Witness ==
  /\ pc = "Done"
  /\ \E i \in ExternalReferences : IsResourceElement(fetched.elems[i])
  /\ Succeeded # {}

(***************************************************************************)
(* C4: when the root fetch fails (status outside [200,400) or transport    *)
(* error) pageLoader rejects and the run creates no file and no directory. *)
(***************************************************************************)
C4_RootFailureWritesNothing ==
  RootFailed =>
    /\ pc = "Failed"
    /\ err.name = "NetworkError"
    /\ ~htmlFile.written
    /\ ~filesDir
    /\ DOMAIN files = {}

C4_Witness == RootFailed /\ rootOutcome.status = 404 /\ pc = "Failed"

(***************************************************************************)
(* C5: a document without local references gets no resources directory and *)
(* is saved as the serialization of the fetched document, no attribute     *)
(* changed; a resources directory exists only in runs that found a local   *)
(* reference.                                                              *)
(***************************************************************************)
C5_NoReferencesNoDirectory ==
  /\ (RootOk /\ LocalReferences = {}) =>
       /\ ~filesDir
       /\ DOMAIN files = {}
       /\ pc # "mkdir"
       /\ htmlFile.written => htmlFile.content = Html(Load(fetched))
  /\ filesDir => LocalReferences # {}

\* a saved document that holds elements, none of them a local reference
C5_Witness ==
  /\ pc = "Done"
  /\ LocalReferences = {}
  /\ Len(fetched.elems) = 2
  /\ \E i \in DOMAIN fetched.elems : IsResourceElement(fetched.elems[i])

\* the source URL parsed, and parsed as an absolute http(s) URL
UrlParsed == [p \in SourceUrls |-> ParseAbsolute(p)]
AbsoluteHttp(p) == UrlParsed[p].ok /\ UrlParsed[p].scheme \in {HttpScheme, HttpsScheme}

\* validateOutputDirectory was entered and has returned or thrown
ValidationEnded ==
  /\ pc \notin {"idle", "access_f", "access_w", "stat"}
  /\ ~(pc = "Failed" /\ err.code = "INVALID_URL")
ValidationPassed == pc = "root_get" \/ RootAnswered
NothingWritten == ~htmlFile.written /\ ~filesDir /\ DOMAIN files = {}

C7_InvalidUrlRejected ==
  (~AbsoluteHttp(url) /\ pc # "idle") =>
    /\ pc = "Failed"
    /\ err.name = "PageLoaderError"
    /\ "Invalid URL" \in Range(err.message)
    /\ requests = <<>>
    /\ NothingWritten

(***************************************************************************)
(* C8: validation of the output path succeeds iff the path is an existing  *)
(* writable directory, and fails with ENOENT for a missing path, ENOTDIR   *)
(* for an existing non-directory, EACCES for a directory without write     *)
(* permission.                                                             *)
(***************************************************************************)
ValidationFailedWith(code, text) ==
  /\ pc = "Failed"
  /\ err.name = "FileSystemError"
  /\ err.code = code
  /\ text \in Range(err.message)

\* C8 as stated: ENOTDIR for every existing non-directory
C8_CauseIdentifiesDefect ==
  ValidationEnded =>
    /\ ValidationPassed <=>
         (outputPath.exists /\ outputPath.writable /\ outputPath.isDirectory)
    /\ ~outputPath.exists =>
         ValidationFailedWith("ENOENT", "Output directory does not exist")
    /\ (outputPath.exists /\ ~outputPath.isDirectory) =>
         ValidationFailedWith("ENOTDIR", "Output path is not a directory")
    /\ (outputPath.exists /\ outputPath.isDirectory /\ ~outputPath.writable) =>
         ValidationFailedWith("EACCES", "No write permission for output directory")

\* C8 as amended: ENOENT for a missing path, EACCES for every existing path
\* without write permission (directory or not), ENOTDIR for an existing
\* writable non-directory
C8_CauseByFirstDefect ==
  ValidationEnded =>
    /\ ValidationPassed <=>
         (outputPath.exists /\ outputPath.writable /\ outputPath.isDirectory)
    /\ ~outputPath.exists =>
         ValidationFailedWith("ENOENT", "Output directory does not exist")
    /\ (outputPath.exists /\ ~outputPath.writable) =>
         ValidationFailedWith("EACCES", "No write permission for output directory")
    /\ (outputPath.exists /\ outputPath.writable /\ ~outputPath.isDirectory) =>
         ValidationFailedWith("ENOTDIR", "Output path is not a directory")

\* validation has rejected a writable file
C8_Witness ==
  /\ ValidationEnded
  /\ outputPath.exists /\ outputPath.writable /\ ~outputPath.isDirectory
  /\ pc = "Failed"

(***************************************************************************)
(* C9: the root GET succeeds exactly when its status is in [200,400); any  *)
(* other status and any transport error fail the run with one NetworkError *)
(* whose code and message tell the cause (HTTP status, host not found,     *)
(* connection refused, timeout, other), and the run then neither parses,   *)
(* rewrites nor writes anything.                                           *)
(***************************************************************************)
RootFailedWith(code, text, statusCode) ==
  /\ err.name = "NetworkError"
  /\ err.code = code
  /\ err.message = <<text>>
  /\ err.statusCode = statusCode

C9_RootFetchFatal ==
  /\ RootOk => ~(pc = "Failed" /\ err.name = "NetworkError")
  /\ RootFailed =>
       /\ pc = "Failed"
       /\ rootOutcome.status # 0 =>
            RootFailedWith("HTTP_ERROR", "Failed to load page: <status> <statusText>",
                           rootOutcome.status)
       /\ rootOutcome.code = "ENOTFOUND" =>
            RootFailedWith("ENOTFOUND", "Failed to load page - host not found", 0)
       /\ rootOutcome.code = "ECONNREFUSED" =>
            RootFailedWith("ECONNREFUSED", "Failed to load page - connection refused", 0)
       /\ rootOutcome.code = "ETIMEDOUT" =>
            RootFailedWith("ETIMEDOUT", "Failed to load page - timeout", 0)
       /\ (rootOutcome.status = 0
           /\ rootOutcome.code \notin {"ENOTFOUND", "ECONNREFUSED", "ETIMEDOUT"}) =>
            RootFailedWith("NETWORK_ERROR", "Failed to load page: <message>", 0)
       /\ dom = <<>> /\ resources = <<>> /\ dl = <<>>
       /\ NothingWritten

\* the root GET has timed out
C9_Witness == RootFailed /\ rootOutcome.code = "ETIMEDOUT" /\ pc = "Failed"

(***************************************************************************)
(* C10: when the write of the final HTML document fails, the run fails     *)
(* with a FileSystemError 'Failed to save HTML file: ...', and the         *)
(* resources directory and the files written into it stay on disk.         *)
(***************************************************************************)
C10_PersistFailed ==
  [][(pc = "write_html" /\ pc' = "Failed") =>
       /\ err'.name = "FileSystemError"
       /\ "Failed to save HTML file" \in Range(err'.message)
       /\ filesDir' = filesDir
       /\ files' = files]_vars

(***************************************************************************)
(* C11: whenever pageLoader resolves, its result is the output directory   *)
(* joined with the document file name of the source URL, and the file of   *)
(* that path exists and holds the serialized rewritten document; it never  *)
(* resolves without that file written.                                     *)
(***************************************************************************)
DocumentNames == [p \in SourceUrls |-> generateHtmlFileName(p)]

C11_ResolvesWithWrittenFile ==
  /\ result.resolved <=> pc = "Done"
  /\ result.resolved =>
       /\ result.dir = "outputDir"
       /\ result.name = DocumentNames[url]
       /\ htmlFile.written
       /\ htmlFile.name = result.name
       /\ htmlFile.content = Html(dom)

\* a resolved run whose document was rewritten
C11_Witness == result.resolved /\ Succeeded # {} /\ url = BlogUrl

(***************************************************************************)
(* C12: the base name of a URL is the URL without its leading http:// or   *)
(* https:// (in either case), each character outside [A-Za-z0-9] replaced  *)
(* by one hyphen and each alphanumeric character kept in place, so as long *)
(* as the scheme-less URL; the document file name is the base name plus    *)
(* '.html' and the resources directory name the base name plus '_files';   *)
(* http://example.com/page.html gives example-com-page-html.html.          *)
(***************************************************************************)
Returned(fn) == call.fn = fn /\ call.ret # <<>>

LowerCased(s, n) == [i \in 1..n |-> ToLowerChar(s[i])]
SchemeLength(u) ==
  IF Len(u) >= Len(HttpsPrefix) /\ LowerCased(u, Len(HttpsPrefix)) = HttpsPrefix
  THEN Len(HttpsPrefix)
  ELSE IF Len(u) >= Len(HttpPrefix) /\ LowerCased(u, Len(HttpPrefix)) = HttpPrefix
  THEN Len(HttpPrefix)
  ELSE 0

IsBaseNameOf(base, u) ==
  LET n == SchemeLength(u) IN
  /\ Len(base) = Len(u) - n
  /\ \A i \in 1..Len(base) :
       base[i] = IF u[n + i] \in Alnum THEN u[n + i] ELSE "-"

C12_BaseNameHyphenated ==
  Returned("generateFileName") =>
    \A j \in DOMAIN call.args :
      /\ IsBaseNameOf(call.ret[j].base, call.args[j])
      /\ call.ret[j].html = call.ret[j].base \o <<".", "h", "t", "m", "l">>
      /\ call.ret[j].dir = call.ret[j].base \o <<"_", "f", "i", "l", "e", "s">>
      /\ call.args[j] = <<"h", "t", "t", "p", ":", "/", "/", "e", "x", "a", "m", "p", "l", "e", ".", "c", "o", "m", "/", "p", "a", "g", "e", ".", "h", "t", "m", "l">> =>
           call.ret[j].html = <<"e", "x", "a", "m", "p", "l", "e", "-", "c", "o", "m", "-", "p", "a", "g", "e", "-", "h", "t", "m", "l", ".", "h", "t", "m", "l">>

\* the call of the example has returned
C12_Witness ==
  /\ Returned("generateFileName")
  /\ call.args = <<<<"h", "t", "t", "p", ":", "/", "/", "e", "x", "a", "m", "p", "l", "e", ".", "c", "o", "m", "/", "p", "a", "g", "e", ".", "h", "t", "m", "l">>>>
  /\ call.ret[1].dir = <<"e", "x", "a", "m", "p", "l", "e", "-", "c", "o", "m", "-", "p", "a", "g", "e", "-", "h", "t", "m", "l", "_", "f", "i", "l", "e", "s">>

(***************************************************************************)
(* C13: the local file name of a reference is the base name of its         *)
(* resolved absolute URL followed by the extension of the final segment of *)
(* the resolved path, '.html' when the path is empty or '/' or the segment *)
(* has no extension.                                                       *)
(***************************************************************************)
LastDot(seg) ==
  IF \E i \in DOMAIN seg : seg[i] = "."
  THEN CHOOSE i \in DOMAIN seg : seg[i] = "." /\ \A j \in DOMAIN seg : seg[j] = "." => j <= i
  ELSE 0
LastSlash(p) ==
  IF \E i \in DOMAIN p : p[i] = "/"
  THEN CHOOSE i \in DOMAIN p : p[i] = "/" /\ \A j \in DOMAIN p : p[j] = "/" => j <= i
  ELSE 0

\* the extension of a segment: from its last dot on, a leading dot not counted
SegmentExtension(seg) ==
  IF LastDot(seg) > 1 THEN SubSeq(seg, LastDot(seg), Len(seg)) ELSE <<".", "h", "t", "m", "l">>

\* the segment after the last slash, and the last segment that is not empty
FinalSegment(p) == SubSeq(p, LastSlash(p) + 1, Len(p))
LastNamedSegment(p) ==
  IF Len(p) > 1 /\ p[Len(p)] = "/" THEN FinalSegment(SubSeq(p, 1, Len(p) - 1))
  ELSE FinalSegment(p)

ResolvedArgs == NewURL(call.args[1], call.args[2])
WholeBaseName == generateFileName(Href(ResolvedArgs))

\* C13 as stated: nothing of the base name is removed
C13_WholeBaseNameThenExtension ==
  (Returned("getLocalFileName") /\ ~call.ret[1].threw) =>
    call.ret[1].value =
      WholeBaseName \o SegmentExtension(FinalSegment(ResolvedArgs.pathname))

\* the base name without its last Len(ext) characters when it ends with the
\* extension written with a hyphen for its dot
Stem(base, ext) ==
  LET n == Len(base) - Len(ext) IN
  IF n >= 0 /\ SubSeq(base, n + 1, Len(base)) = <<"-">> \o Tail(ext)
  THEN SubSeq(base, 1, n) ELSE base

\* C13 as amended: the base name of the resolved absolute URL, its trailing
\* hyphenated extension removed when it ends with one, followed by the
\* extension of the last segment of the resolved path that is not empty
C13_StemThenExtension ==
  (Returned("getLocalFileName") /\ ~call.ret[1].threw) =>
    LET ext == SegmentExtension(LastNamedSegment(ResolvedArgs.pathname)) IN
    call.ret[1].value = Stem(WholeBaseName, ext) \o ext

\* the name of /image.png has been returned
C13_Witness ==
  /\ Returned("getLocalFileName")
  /\ call.args = <<<<"/", "i", "m", "a", "g", "e", ".", "p", "n", "g">>, PageUrl>>
  /\ call.ret[1].value = <<"e", "x", "a", "m", "p", "l", "e", "-", "c", "o", "m", "-", "i", "m", "a", "g", "e", ".", "p", "n", "g">>

(***************************************************************************)
(* C14: for the page https://example.com/page whose resources /image.png,  *)
(* /style.css and /script.js all return 200, example-com-page_files holds  *)
(* exactly example-com-image.png, example-com-style.css and                *)
(* example-com-script.js and each attribute is rewritten to                *)
(* example-com-page_files/<that name>; in general a local resource         *)
(* <host>/<path>.<ext> is saved as the hyphenated host and path without    *)
(* the extension, followed by '.<ext>'.                                    *)
(***************************************************************************)
ScenarioDone ==
  /\ pc = "Done"
  /\ platform = "posix"
  /\ url = PageUrl
  /\ fetched = ScenarioDocument
  /\ Cardinality(Succeeded) = 3

\* per page and reference <host>/<path>.<ext> without query and fragment:
\* host and path without the extension, hyphenated, then the extension
HostPathNames ==
  [p \in SourceUrls |->
     [a \in AttrValues |->
        LET u == Resolved[p][a]
            seg == FinalSegment(u.pathname)
            ext == SegmentExtension(seg)
            whole == u.host \o u.pathname IN
        IF u.ok /\ u.search = <<>> /\ u.hash = <<>> /\ LastDot(seg) > 1
        THEN <<[i \in 1..(Len(whole) - Len(ext)) |->
                  IF whole[i] \in Alnum THEN whole[i] ELSE "-"] \o ext>>
        ELSE <<>>]]

C14_ScenarioFilesAndAttributes ==
  /\ ScenarioDone =>
       /\ filesDir
       /\ DOMAIN files = {<<"e", "x", "a", "m", "p", "l", "e", "-", "c", "o", "m", "-", "i", "m", "a", "g", "e", ".", "p", "n", "g">>, <<"e", "x", "a", "m", "p", "l", "e", "-", "c", "o", "m", "-", "s", "t", "y", "l", "e", ".", "c", "s", "s">>,
                          <<"e", "x", "a", "m", "p", "l", "e", "-", "c", "o", "m", "-", "s", "c", "r", "i", "p", "t", ".", "j", "s">>}
       /\ SavedAttr(1) = <<"e", "x", "a", "m", "p", "l", "e", "-", "c", "o", "m", "-", "p", "a", "g", "e", "_", "f", "i", "l", "e", "s", "/", "e", "x", "a", "m", "p", "l", "e", "-", "c", "o", "m", "-", "s", "t", "y", "l", "e", ".", "c", "s", "s">>
       /\ SavedAttr(2) = <<"e", "x", "a", "m", "p", "l", "e", "-", "c", "o", "m", "-", "p", "a", "g", "e", "_", "f", "i", "l", "e", "s", "/", "e", "x", "a", "m", "p", "l", "e", "-", "c", "o", "m", "-", "i", "m", "a", "g", "e", ".", "p", "n", "g">>
       /\ SavedAttr(3) = <<"e", "x", "a", "m", "p", "l", "e", "-", "c", "o", "m", "-", "p", "a", "g", "e", "_", "f", "i", "l", "e", "s", "/", "e", "x", "a", "m", "p", "l", "e", "-", "c", "o", "m", "-", "s", "c", "r", "i", "p", "t", ".", "j", "s">>
  /\ \A k \in Succeeded :
       \A n \in Range(HostPathNames[url][OriginalAttr(resources[k])]) :
         /\ n \in DOMAIN files
         /\ dom[resources[k]].attr = filesDirName \o <<PathSep>> \o n

\* the run of the scenario has resolved
C14_Witness == ScenarioDone /\ htmlFile.written

(***************************************************************************)
(* C15: a reference is classified local iff it resolves against the page   *)
(* URL and the resolved host, port included, equals the host of the page;  *)
(* a reference that cannot be resolved is classified not local without an  *)
(* error raised, and is never downloaded and never rewritten.              *)
(***************************************************************************)
Scanned == {resources[k] : k \in DOMAIN resources}
Unresolvable(a) == a # <<>> /\ ~Resolved[url][a].ok

C15_LocalIffSameHostAndPort ==
  RootOk =>
    /\ \A i \in DOMAIN fetched.elems :
         /\ (IsResourceElement(fetched.elems[i]) /\ OriginalAttr(i) # <<>>) =>
              (i \in Scanned <=>
                 /\ Resolved[url][OriginalAttr(i)].ok
                 /\ Resolved[url][OriginalAttr(i)].host = PageHost[url])
         /\ Unresolvable(OriginalAttr(i)) =>
              /\ i \notin Scanned
              /\ dom[i].attr = OriginalAttr(i)
              /\ htmlFile.written => SavedAttr(i) = OriginalAttr(i)
              /\ \A r \in DOMAIN requests : requests[r].who # i
    /\ pc = "Failed" => err.name = "Error"

\* a page on a host with a port: its unresolvable reference was left alone,
\* its local one downloaded
C15_Witness ==
  /\ pc = "Done"
  /\ url = BlogUrl
  /\ fetched = MalformedDocument
  /\ Succeeded # {}

(***************************************************************************)
(* C16: for every reference whose download succeeded the attribute is set  *)
(* to the resources directory name, a forward slash and the local file     *)
(* name, on every host platform.                                           *)
(***************************************************************************)
C16_ForwardSlashOnEveryPlatform ==
  \A k \in Succeeded :
    dom[resources[k]].attr = filesDirName \o <<"/">> \o NameOf(k)

(***************************************************************************)
(* C17: when a document has local references and every download fails, the *)
(* run resolves with all attributes unchanged, the saved document holds no *)
(* reference into a '_files' directory, and no resources directory exists  *)
(* in the output directory after the run.                                  *)
(***************************************************************************)
AllDownloadsFailed ==
  /\ LocalReferences # {}
  /\ Len(dl) = Cardinality(LocalReferences)
  /\ \A k \in DOMAIN dl : dl[k].st = "failed"

\* does the value hold the text _files
MentionsFilesDir(a) ==
  \E i \in 1..(Len(a) - Len(FilesSuffix) + 1) :
    SubSeq(a, i, i + Len(FilesSuffix) - 1) = <<"_", "f", "i", "l", "e", "s">>

C17_AllFailedLeavesNoDirectory ==
  (AllDownloadsFailed /\ pc = "Done") =>
    /\ result.resolved
    /\ htmlFile.content.elems = fetched.elems
    /\ \A i \in DOMAIN htmlFile.content.elems : ~MentionsFilesDir(SavedAttr(i))
    /\ ~filesDir

(***************************************************************************)
(* C18: for a fetched page without local references, an empty response     *)
(* body included, the saved HTML file equals the response body character   *)
(* for character.                                                          *)
(***************************************************************************)
C18_SavedEqualsBody ==
  (htmlFile.written /\ LocalReferences = {}) => htmlFile.content = fetched

(***************************************************************************)
(* C19: the document file name is a function of the URL string alone: two  *)
(* calls with the same URL return the same name in any state, whatever the *)
(* host, the output path and the files of earlier runs are, and computing  *)
(* it issues no request.                                                   *)
(***************************************************************************)
\* the document file name of every URL the calls are made with, computed
\* outside any state
CalledUrls == UrlInputs \cup TestUrls
DocumentNameOf == [u \in CalledUrls |-> generateHtmlFileName(u)]

DifferOutsideAlnumOnly(s, t) ==
  /\ Len(s) = Len(t)
  /\ \A i \in 1..Len(s) : s[i] # t[i] => (s[i] \notin Alnum /\ t[i] \notin Alnum)

SchemeLess(u) == SubSeq(u, SchemeLength(u) + 1, Len(u))
PairReturned == Returned("generateFileName") /\ Len(call.args) = 2

\* C20 as stated: the URLs themselves differ outside [A-Za-z0-9] only
C20_InjectiveUpToPunctuation ==
  (PairReturned /\ call.ret[1].base = call.ret[2].base) =>
    DifferOutsideAlnumOnly(call.args[1], call.args[2])

\* C20 as amended: two URLs get the same base name iff, their leading
\* http:// or https:// left out, they differ outside [A-Za-z0-9] only; URLs
\* that differ in their scheme only get the same base name
C20_InjectiveUpToSchemeAndPunctuation ==
  PairReturned =>
    (call.ret[1].base = call.ret[2].base
       <=> DifferOutsideAlnumOnly(SchemeLess(call.args[1]), SchemeLess(call.args[2])))

\* an http and an https URL, different in their tails too, with one base name
C20_Witness ==
  /\ PairReturned
  /\ call.ret[1].base = call.ret[2].base
  /\ SchemeLength(call.args[1]) # SchemeLength(call.args[2])
  /\ SchemeLess(call.args[1]) # SchemeLess(call.args[2])

(***************************************************************************)
(* C21: a run moves through the phases in the order ValidatingInput,       *)
(* FetchingDocument, RewritingResources, PersistingDocument, Done, each    *)
(* entered at most once and none skipped, or moves from its phase to       *)
(* Failed; Done and Failed are terminal; the source URL is validated       *)
(* before the output directory, the root GET is issued only after          *)
(* validation succeeded, and the write of the HTML file starts only after  *)
(* the rewrite phase returned.                                             *)
(***************************************************************************)
Phases ==
  <<"Idle", "ValidatingInput", "FetchingDocument", "RewritingResources",
    "PersistingDocument", "Done">>

\* the phase pageLoader is waiting in
Phase(p) ==
  CASE p = "idle" -> "Idle"
    [] p \in {"access_f", "access_w", "stat"} -> "ValidatingInput"
    [] p = "root_get" -> "FetchingDocument"
    [] p \in {"mkdir", "downloads"} -> "RewritingResources"
    [] p = "write_html" -> "PersistingDocument"
    [] p = "Done" -> "Done"
    [] p = "Failed" -> "Failed"

Rank(ph) == CHOOSE n \in DOMAIN Phases : Phases[n] = ph

\* the rewrite phase was entered and has returned within the step: the
\* document was parsed and scanned, and nothing was left to wait for
RewritePassedThrough ==
  /\ Phase(pc) = "FetchingDocument"
  /\ Phase(pc') = "PersistingDocument"
  /\ dom' = Load(fetched')
  /\ resources' = <<>>
  /\ dl' = <<>>

PhaseStep ==
  /\ ~Terminated
  /\ \/ Phase(pc') = Phase(pc)
     \/ Phase(pc') = "Failed"
     \/ Phase(pc') # "Failed" /\ Rank(Phase(pc')) = Rank(Phase(pc)) + 1
     \/ RewritePassedThrough

\* the output directory was looked at only for a source URL that parsed,
\* a request was made only after validateOutputDirectory returned, and the
\* HTML file is written only once processHtml has returned
PhaseGuards ==
  /\ (Phase(pc) # "Idle" /\ ~(pc = "Failed" /\ err.code = "INVALID_URL"))
       => UrlParsed[url].ok
  /\ (pc = "Failed" /\ err.code = "INVALID_URL") => ~UrlParsed[url].ok
  /\ requests # <<>> =>
       /\ ValidationPassed
       /\ outputPath.exists /\ outputPath.writable /\ outputPath.isDirectory
  /\ (pc = "write_html" \/ htmlFile.written) =>
       /\ RootOk
       /\ resources = Scan(Load(fetched), url)
       /\ Len(dl) = Len(resources)
       /\ AllSettled(dl)

C21_PhaseOrder == []PhaseGuards /\ [][PhaseStep]_vars

\* a run that reached Done through the mkdir and a download
C21_Witness == pc = "Done" /\ filesDir /\ Succeeded # {} /\ Len(requests) = 2

(***************************************************************************)
(* C22: in a run with at least one local reference the creation of the     *)
(* resources directory has completed before the first resource GET is      *)
(* issued and before any write of a resource file begins.                  *)
(***************************************************************************)
ResourceRequests == {n \in DOMAIN requests : requests[n].who # 0}
WritesBegun == {k \in DOMAIN dl : dl[k].st \in {"write", "ok"}}

DirectoryBeforeDownloads ==
  (dl # <<>> \/ ResourceRequests # {} \/ WritesBegun # {} \/ DOMAIN files # {})
    => filesDir

C22_DirectoryBeforeDownloads ==
  /\ []DirectoryBeforeDownloads
  /\ [][(dl = <<>> /\ dl' # <<>>) => pc = "mkdir" /\ filesDir']_vars
  /\ [][(Len(requests') > Len(requests) /\ pc # "stat") => pc = "mkdir" /\ filesDir']_vars

\* the directory exists, a GET is in flight and a file write has begun
C22_Witness ==
  /\ pc = "downloads" /\ filesDir
  /\ \E k \in DOMAIN dl : dl[k].st = "get"
  /\ \E k \in DOMAIN dl : dl[k].st = "write"
  /\ ResourceRequests # {}

(***************************************************************************)
(* C23: the document is serialized, and the HTML file written, only after  *)
(* every launched download unit has settled, succeeded or failed; in no    *)
(* interleaving is a download in flight, or an attribute rewritten, after  *)
(* the serialization.                                                      *)
(***************************************************************************)
InFlight == {k \in DOMAIN dl : dl[k].st \in {"get", "write"}}

\* processHtml has returned $.html()
Serialized == RootOk /\ pc \notin {"mkdir", "downloads"} /\ ~(pc = "Failed" /\ ~filesDir /\ resources # <<>>)

SerializedAfterAllSettled ==
  /\ Serialized => InFlight = {} /\ Len(dl) = Len(resources)
  /\ htmlFile.written => htmlFile.content = Html(dom)

C23_SerializedAfterAllSettled ==
  /\ []SerializedAfterAllSettled
  /\ [][Serialized => (Serialized' /\ dom' = dom /\ dl' = dl /\ files' = files)]_vars

\* the file is written after two units settled, one succeeded, one failed
C23_Witness ==
  /\ htmlFile.written
  /\ Len(dl) = 2
  /\ Succeeded # {} /\ Unsuccessful # {}

(***************************************************************************)
(* C24: no two download units mutate the same element (each reference has  *)
(* an element of its own), and for fixed outcomes of the references the    *)
(* serialized document is the same in whatever order the concurrent        *)
(* downloads complete: the document is a function of the set of units      *)
(* that succeeded.                                                         *)
(***************************************************************************)
\* the element unit k rewrites
Handle(k) == resources[k]

\* the document in which exactly the elements of the units of set ok are
\* rewritten
DocumentOf(ok) ==
  [i \in DOMAIN fetched.elems |->
     IF \E k \in ok : Handle(k) = i
     THEN [fetched.elems[i] EXCEPT
             !.attr = filesDirName \o <<"/">> \o LocalNames[url][OriginalAttr(i)]]
     ELSE fetched.elems[i]]

DistinctHandles ==
  /\ \A j, k \in DOMAIN resources : Handle(j) = Handle(k) => j = k
  /\ RootOk => dom = DocumentOf(Succeeded)
  /\ htmlFile.written => htmlFile.content = Html(DocumentOf(Succeeded))

\* a unit changes the element of its own and no other
OwnHandleOnly ==
  \A i \in DOMAIN dom :
    dom'[i] # dom[i] => \E k \in DOMAIN dl : dl[k].st = "write" /\ dl'[k].st = "ok" /\ Handle(k) = i

C24_RewritesCommute ==
  /\ []DistinctHandles
  /\ [][pc = "downloads" => (DOMAIN dom' = DOMAIN dom /\ OwnHandleOnly)]_vars

\* the second unit has completed while the first is in flight
C24_Witness ==
  /\ pc = "downloads" /\ Len(dl) = 2
  /\ dl[2].st = "ok" /\ dl[1].st \in {"get", "write"}
  /\ dom[Handle(2)] # fetched.elems[Handle(2)]
  /\ dom[Handle(1)] = fetched.elems[Handle(1)]

(***************************************************************************)
(* C25: within a run every resource reference is the subject of at most    *)
(* one GET request and at most one file write, and the root page of at     *)
(* most one GET: no failed fetch, of a resource or of the root page, is    *)
(* retried.                                                                *)
(***************************************************************************)
RequestsOf(who) == {n \in DOMAIN requests : requests[n].who = who}

\* the steps of a download unit: its GET settles once, its write settles once
UnitSteps ==
  {<<"get", "write">>, <<"get", "failed">>, <<"write", "ok">>, <<"write", "failed">>}

AtMostOneRequest ==
  /\ Cardinality(RequestsOf(0)) <= 1
  /\ \A k \in DOMAIN resources : Cardinality(RequestsOf(Handle(k))) <= 1
  /\ Len(requests) <= 1 + Len(resources)
  /\ RootFailed => pc = "Failed" /\ Len(requests) <= 1

NoRetryStep ==
  /\ RootAnswered => rootOutcome' = rootOutcome
  /\ requests # <<>> => Cardinality(RequestsOf(0)') = Cardinality(RequestsOf(0))
  /\ dl # <<>> =>
       /\ requests' = requests
       /\ DOMAIN dl' = DOMAIN dl
       /\ \A k \in DOMAIN dl :
            dl'[k] = dl[k] \/ <<dl[k].st, dl'[k].st>> \in UnitSteps

C25_NoRetry == []AtMostOneRequest /\ [][NoRetryStep]_vars

\* a run that ended with a reference whose one GET or one write failed
C25_Witness ==
  /\ pc = "Done"
  /\ \E k \in DOMAIN dl :
       dl[k].st = "failed" /\ Cardinality(RequestsOf(Handle(k))) = 1

(***************************************************************************)
(* C26: the references built by the scan are exactly one per element       *)
(* matching img[src], link[rel=stylesheet][href], link[rel=canonical]      *)
(* [href] or script[src] whose attribute is non-empty and local, and they  *)
(* are created in document order.                                          *)
(***************************************************************************)
OnePerLocalReference ==
  /\ {Handle(k) : k \in DOMAIN resources} = LocalReferences
  /\ Len(resources) = Cardinality(LocalReferences)

InDocumentOrder ==
  \A j, k \in DOMAIN resources : j < k => Handle(j) < Handle(k)

C26_OnePerMatchInDocumentOrder ==
  RootOk => OnePerLocalReference /\ InDocumentOrder

\* what holds of the scan: one reference per match, selector by selector
C26_OnePerMatch == RootOk => OnePerLocalReference

(***************************************************************************)
(* C27: after a run resolves, for every reference whose attribute was      *)
(* rewritten the file the attribute points to exists in the resources      *)
(* directory and its content equals, byte for byte, the body the GET of    *)
(* the resolved URL of that reference returned; a resource whose GET       *)
(* failed has no file written for it.                                      *)
(***************************************************************************)
Rewritten == {k \in DOMAIN dl : dom[Handle(k)].attr # OriginalAttr(Handle(k))}

\* the file the rewritten attribute of unit k points to
PointsTo(k, n) == dom[Handle(k)].attr = filesDirName \o <<"/">> \o n

FileHoldsBody(k) ==
  \E n \in DOMAIN files : PointsTo(k, n) /\ files[n] = dl[k].body

C27_FileHoldsBody ==
  pc = "Done" => \A k \in Rewritten : FileHoldsBody(k)

\* two different resources of one local file name, answered with different
\* bodies: the file holds the body of one of them
C27_SharedFile ==
  /\ pc = "Done"
  /\ fetched = CollidingDocument
  /\ Rewritten = {1, 2}
  /\ dl[1].body # dl[2].body
  /\ ~(FileHoldsBody(1) /\ FileHoldsBody(2))

(***************************************************************************)
(* C28: provided every HTTP call and every file system call eventually     *)
(* settles (each HTTP call is bounded by its timeout), every started run   *)
(* eventually reaches Done or Failed; no run waits forever in the rewrite  *)
(* phase, whatever mix of successes and failures the downloads produce.    *)
(***************************************************************************)
Started == pc # "idle"

C28_RunTerminates == Started ~> Terminated

\* a run that ended after one download succeeded and two failed
C28_Witness ==
  /\ pc = "Done"
  /\ Len(dl) = 3
  /\ Cardinality(Succeeded) = 1
  /\ Cardinality(Unsuccessful) = 2

(***************************************************************************)
(* C29: creating the resources directory is idempotent: when it exists     *)
(* already the step succeeds without error, so a second run with the same  *)
(* URL, the same output directory and the same responses succeeds and      *)
(* leaves the same HTML file and the same set of resource files as the     *)
(* first run.                                                              *)
(***************************************************************************)
\* the second run was answered as the first
SameResponses == RootOk /\ fetched = earlier.fetched /\ Succeeded = earlier.ok

\* the state LeftBy describes is the state a resolved first run ends in
RunLeaves ==
  (pc = "Done" /\ ~earlier.ran) =>
    LET left == LeftBy(url, fetched, Succeeded) IN
    /\ htmlFile = left.htmlFile
    /\ filesDir = left.filesDir
    /\ DOMAIN files = DOMAIN left.files

LeftByEarlier ==
  [e \in EarlierRuns |-> LeftBy(PageUrl, e.fetched, e.ok)]

SecondRunLeavesTheSame ==
  earlier.ran =>
    /\ ~(pc = "Failed" /\ err.code = "EEXIST")
    /\ (pc = "write_html" /\ SameResponses) => resources = <<>> \/ filesDir
    /\ (pc = "Done" /\ SameResponses) =>
         /\ htmlFile = LeftByEarlier[earlier].htmlFile
         /\ filesDir = LeftByEarlier[earlier].filesDir
         /\ DOMAIN files = DOMAIN LeftByEarlier[earlier].files

\* fs.mkdir settles alike whether or not the directory exists
MkdirIdempotent ==
  (pc = "mkdir" /\ filesDir) =>
    /\ pc' = "downloads" => filesDir' /\ files' = files
    /\ pc' = "Failed" => err'.code \in FsErrorCodes

C29_SecondRunLeavesTheSame ==
  []SecondRunLeavesTheSame /\ [][MkdirIdempotent]_vars

\* the second run resolved over the directory and the files of the first
C29_Witness ==
  /\ earlier.ran /\ earlier.ok # {} /\ earlier.fetched = ScenarioDocument
  /\ pc = "Done" /\ SameResponses
  /\ \E k \in Succeeded : files[NameOf(k)] = "bytes2"

(***************************************************************************)
(* C30: runs share no mutable state: two invocations of pageLoader with    *)
(* different output directories, interleaved in any way in one process,    *)
(* each produce the result, the files and the document the same            *)
(* invocation produces when it runs alone.                                 *)
(***************************************************************************)
\* what invocation r has produced is what a run alone produces of the
\* arguments and the answers of r: the references of its own page, the
\* document rewritten for its own successes, and at the end the state
\* RunLeaves states of a lone run
IsAsAlone(r, left) ==
  /\ r.resources = left.resources
  /\ r.dl = <<>> \/ Len(r.dl) = Len(r.resources)
  /\ r.dom = left.htmlFile.content.elems
  /\ DOMAIN r.files = DOMAIN left.files
  /\ r.htmlFile.written <=> r.pc = "Done"
  /\ r.pc = "Done" =>
       /\ r.htmlFile = left.htmlFile
       /\ r.filesDir = left.filesDir
       /\ r.result = [resolved |-> TRUE, dir |-> r.outputPath.dir,
                      name |-> left.htmlFile.name]

AsAlone(r) ==
  IF r.rootOutcome # NoOutcome /\ Resolves(r.rootOutcome)
  THEN With(LeftBy(r.url, r.fetched, {k \in DOMAIN r.dl : r.dl[k].st = "ok"}),
            LAMBDA left : IsAsAlone(r, left))
  ELSE /\ r.dom = <<>> /\ r.dl = <<>> /\ DOMAIN r.files = {}
       /\ ~r.htmlFile.written /\ r.pc # "Done"

\* a step of one invocation leaves the other as it was
OtherUntouched == other' = other \/ (other' = Running /\ Running' = other)

\* the event loop may turn to the other invocation in every state, so what
\* holds of the invocation that is running in every state holds of both
C30_RunsIndependent ==
  /\ [](other.active => AsAlone(Running))
  /\ [][other.active => OtherUntouched]_vars

\* both invocations resolved, each after the other had started its downloads
C30_Witness ==
  /\ other.active
  /\ pc = "Done" /\ other.pc = "Done"
  /\ Succeeded # {} /\ \E k \in DOMAIN other.dl : other.dl[k].st = "ok"
  /\ result.dir # other.result.dir
  /\ DOMAIN files # DOMAIN other.files

(***************************************************************************)
(* C31: within one run no two download units write to the same file path:  *)
(* distinct references (two elements of the same URL, or references to     *)
(* different URLs such as /page, /page.html and /page-html) are saved      *)
(* under distinct local file names, so no resource file is overwritten by  *)
(* a sibling download.                                                     *)
(***************************************************************************)
DistinctFileNames ==
  \A j, k \in DOMAIN resources : j # k => NameOf(j) # NameOf(k)

C31_DistinctFileNames == RootOk => DistinctFileNames

\* the three references of the page are saved under one name, and the file
\* one unit wrote is overwritten by another
C31_SiblingsShareOneFile ==
  /\ pc = "Done"
  /\ fetched = SiblingsDocument
  /\ Succeeded = {1, 2, 3}
  /\ Cardinality(DOMAIN files) = 1
  /\ dl[1].body # dl[2].body

(***************************************************************************)
(* C32: an attribute is rewritten only after the GET of its reference      *)
(* succeeded and the write of its file completed; hence in every reachable *)
(* state of the rewrite phase every attribute already rewritten names a    *)
(* file that exists in the resources directory.                            *)
(***************************************************************************)
RewrittenElements == {i \in DOMAIN dom : dom[i].attr # fetched.elems[i].attr}

NamesExistingFile(i) ==
  /\ filesDir
  /\ \E n \in DOMAIN files : dom[i].attr = filesDirName \o <<"/">> \o n
  /\ \E k \in DOMAIN dl : Handle(k) = i /\ dl[k].st = "ok"

C32_RewrittenAfterWrite ==
  RootOk => \A i \in RewrittenElements : NamesExistingFile(i)

\* in the rewrite phase one attribute is rewritten, its file written, while
\* the write of another unit is still to complete
C32_Witness ==
  /\ pc = "downloads"
  /\ RewrittenElements # {}
  /\ \E k \in DOMAIN dl : dl[k].st = "write" /\ Handle(k) \notin RewrittenElements

(***************************************************************************)
(* C33: every file a run writes is the document file directly inside the   *)
(* output directory or a resource file directly inside the resources       *)
(* directory: no derived document or resource file name contains a path    *)
(* separator or is a '..' segment, for every source URL and every          *)
(* attribute value found in the page.                                      *)
(***************************************************************************)
\* the characters path.join takes for separators on the host
Separators == IF platform = "win32" THEN {"/", "\\"} ELSE {"/"}

\* a name path.join(dir, name) keeps directly inside dir
IsSingleSegment(n) ==
  /\ n # <<>>
  /\ \A i \in DOMAIN n : n[i] \notin Separators
  /\ n \notin {<<".">>, <<".", ".">>}

C33_NamesAreSingleSegments ==
  /\ (Returned("getLocalFileName") /\ ~call.ret[1].threw) =>
       IsSingleSegment(call.ret[1].value)
  /\ Returned("generateFileName") =>
       \A j \in DOMAIN call.ret :
         IsSingleSegment(call.ret[j].html) /\ IsSingleSegment(call.ret[j].dir)

\* the name of a reference that climbs with '..'
C33_Witness ==
  /\ Returned("getLocalFileName") /\ ~call.ret[1].threw
  /\ call.args[1] = <<"/", ".", ".", "/", "u", "p", ".", "p", "n", "g">>
  /\ call.ret[1].value = <<"e", "x", "a", "m", "p", "l", "e", "-", "c", "o", "m", "-", "u", "p", ".", "p", "n", "g">>

(***************************************************************************)
(* C34: if creating the resources directory fails, the run fails: no       *)
(* resource download is launched, no HTML document is written and          *)
(* pageLoader rejects; the failure is not tolerated like the failure of a  *)
(* resource.                                                               *)
(***************************************************************************)
\* fs.mkdir was called for the resources directory and did not create it
MkdirFailed == RootOk /\ resources # <<>> /\ pc # "mkdir" /\ ~filesDir

C34_MkdirFailureFatal ==
  MkdirFailed =>
    /\ pc = "Failed"
    /\ err = SystemError("mkdir", err.code) /\ err.code \in FsErrorCodes
    /\ ~result.resolved
    /\ dl = <<>>
    /\ ResourceRequests = {}
    /\ ~htmlFile.written
    /\ DOMAIN files = {}

\* fs.mkdir failed for a page with two local references
C34_Witness ==
  /\ MkdirFailed
  /\ Len(resources) = 2
  /\ err.code = "EACCES"

(***************************************************************************)
(* C35: validateOutputDirectory returns normally only if its final stat    *)
(* call observed an existing directory: if the path is removed or replaced *)
(* by another process between the existence and permission checks and the  *)
(* stat check, validation fails and no root GET is issued.                 *)
(***************************************************************************)
\* the output path changes during validation only, so what a later state
\* holds of it is what fs.stat observed
StatSawDirectory == outputPath.exists /\ outputPath.isDirectory

C35_ValidOnlyIfStatSawDirectory ==
  (ValidationPassed \/ requests # <<>>) => StatSawDirectory

\* what holds of the code: a path replaced by a file is rejected, a path
\* removed before fs.stat is taken for valid
C35_ValidUnlessStatSawFile ==
  (ValidationPassed \/ requests # <<>>) => (~outputPath.exists \/ outputPath.isDirectory)

\* the path was removed after the two fs.access calls, and the root GET was
\* issued all the same
C35_RemovedPathPasses ==
  /\ pc = "root_get"
  /\ ~outputPath.exists
  /\ requests # <<>>

====
